---- MODULE Spec2Model ----
(***************************************************************************)
(* The Earley-Scott parser of eparser.cpp as a state machine.              *)
(*                                                                         *)
(* One behaviour is one call of Parser::parse followed by the caller's     *)
(* release of the returned forest.  The grammar, the matching function,    *)
(* the start nonterminal, the token list and the heap layout are chosen    *)
(* in Init; every later step is a step of the code.                        *)
(*                                                                         *)
(* Pointers are modelled as positive integers, NULL as 0.  A Production*   *)
(* is the index of the production in the grammar's table, a Node* is the   *)
(* serial number of the node, a State* is the number of its arena slot.    *)
(***************************************************************************)
EXTENDS Integers, Sequences, FiniteSets, TLC

VARIABLES
    pc,            \* position in Parser::parse / its caller
    pGrammar,      \* Parser::m_pGrammar: index into Grammars, 0 = NULL
    matcher,       \* Parser::m_pMatchingFunc: name of the matching function
    layout,        \* where the allocator placed productions and nodes
    iStartNt,      \* argument iStartNt
    nTokens,       \* argument nTokens
    pnToklist,     \* argument pnToklist: [null |-> BOOLEAN, list |-> Seq]
    errorToken,    \* *pnErrorToken
    i,             \* loop variable i of parse
    pCol,          \* the Column objects, pCol[k+1] is column k
    st,            \* the State objects by arena slot
    chunks,        \* the StateChunk list: m_nIndex (in states), head last
    nodes,         \* the Node objects by serial number
    ndV,           \* NodeDict: the registered nodes, head first
    pH,            \* the H set: HNodes, head first
    pQ,            \* scan agenda of the current column (list head)
    pQ0,           \* scan agenda carried to the next column (list head)
    pbSeen,        \* the seen-nonterminal bitmap
    pState,        \* the agenda state being processed
    pV,            \* the token node of the running scan
    pResult,       \* the node that parse returns
    nComb,         \* what the caller's numCombinations(pResult) returned
    ac,            \* the AllocCounters: allocations and frees per class
    nDiscardedStates,
    fault,         \* set when the code dereferences NULL or a freed object
    misuse,        \* history: a call was made that its callee does not allow
    grammarFile,   \* the binary grammar file that readBinary is given
    rd             \* Grammar::readBinary: its locals and the Grammar object

vars == << pc, pGrammar, matcher, layout, iStartNt, nTokens, pnToklist,
           errorToken, i, pCol, st, chunks, nodes, ndV, pH, pQ, pQ0, pbSeen,
           pState, pV, pResult, nComb, ac, nDiscardedStates, fault, misuse,
           grammarFile, rd >>

(***************************************************************************)
(* Bounds of the model                                                     *)
(***************************************************************************)
MaxTokens == 4

\* the longest grammar file, in 32-bit words after the signature
MaxWords == 8

(***************************************************************************)
(* Program constants                                                       *)
(***************************************************************************)
\* TLC's integers are 32 bits wide and signed, so a UINT is held as the INT
\* with the same bits: (UINT)-1 is -1, and the conversions between INT and
\* UINT leave the representation as it is.
HASH_BINS == 997
CHUNK_STATES == 2048
SENTINEL == -1
HALF == 65536

NULL == 0

(***************************************************************************)
(* Grammars, built as etest.cpp builds its grammar: prods[p] is the item   *)
(* list of production p, nts[k] the nonterminal with code -k, whose head   *)
(* list is in Nonterminal::getHead order (addProduction links at the head, *)
(* so the production added last comes first).                              *)
(***************************************************************************)
Nt(hd) == [set |-> TRUE, head |-> hd]
NoNt == [set |-> FALSE, head |-> << >>]

\* etest.cpp runTest_1: S0 -> S; S -> Y | S OgS; Y -> 1 2 Adv; OgS -> 3 S;
\* Adv -> 4 | epsilon.  S = -1, Y = -2, OgS = -3, S0 = -4, Adv = -5.
GrammarA ==
    [ nNonterminals |-> 5, nTerminals |-> 4, iRoot |-> -1,
      prods |-> << << -1 >>, << -2 >>, << -1, -3 >>, << 1, 2, -5 >>,
                   << 3, -1 >>, << 4 >>, << >> >>,
      nts |-> << Nt(<< 3, 2 >>), Nt(<< 4 >>), Nt(<< 5 >>), Nt(<< 1 >>),
                 Nt(<< 7, 6 >>) >>,
      start |-> -4, alphabet |-> {1, 2, 4} ]

\* S -> S S | 1
GrammarE ==
    [ nNonterminals |-> 1, nTerminals |-> 1, iRoot |-> -1,
      prods |-> << << -1, -1 >>, << 1 >> >>,
      nts |-> << Nt(<< 2, 1 >>) >>,
      start |-> -1, alphabet |-> {1} ]

\* S -> S | 1
GrammarCyc ==
    [ nNonterminals |-> 1, nTerminals |-> 2, iRoot |-> -1,
      prods |-> << << -1 >>, << 1 >> >>,
      nts |-> << Nt(<< 2, 1 >>) >>,
      start |-> -1, alphabet |-> {1, 2} ]

\* S -> A; A -> epsilon | 1
GrammarD ==
    [ nNonterminals |-> 2, nTerminals |-> 2, iRoot |-> -1,
      prods |-> << << -2 >>, << >>, << 1 >> >>,
      nts |-> << Nt(<< 1 >>), Nt(<< 3, 2 >>) >>,
      start |-> -1, alphabet |-> {1, 2} ]

\* S -> A A 2; A -> epsilon | 1
GrammarN ==
    [ nNonterminals |-> 2, nTerminals |-> 2, iRoot |-> -1,
      prods |-> << << -2, -2, 2 >>, << >>, << 1 >> >>,
      nts |-> << Nt(<< 1 >>), Nt(<< 3, 2 >>) >>,
      start |-> -1, alphabet |-> {1, 2} ]

\* S -> S S | 1 | epsilon
GrammarNR ==
    [ nNonterminals |-> 1, nTerminals |-> 1, iRoot |-> -1,
      prods |-> << << -1, -1 >>, << 1 >>, << >> >>,
      nts |-> << Nt(<< 3, 2, 1 >>) >>,
      start |-> -1, alphabet |-> {1} ]

\* S -> 1 | 1 2, with a second nonterminal slot that was never set
GrammarC ==
    [ nNonterminals |-> 2, nTerminals |-> 2, iRoot |-> -1,
      prods |-> << << 1 >>, << 1, 2 >> >>,
      nts |-> << Nt(<< 2, 1 >>), NoNt >>,
      start |-> -1, alphabet |-> {1, 2} ]

\* S -> A B 2 | B A 2 | A; A -> 1; B -> 1 | epsilon
GrammarP ==
    [ nNonterminals |-> 3, nTerminals |-> 2, iRoot |-> -1,
      prods |-> << << -2, -3, 2 >>, << -3, -2, 2 >>, << -2 >>, << 1 >>,
                   << 1 >>, << >> >>,
      nts |-> << Nt(<< 3, 2, 1 >>), Nt(<< 4 >>), Nt(<< 6, 5 >>) >>,
      start |-> -1, alphabet |-> {1, 2} ]

\* S -> B; B -> 1 | C; C -> 1
GrammarU ==
    [ nNonterminals |-> 3, nTerminals |-> 1, iRoot |-> -1,
      prods |-> << << -2 >>, << 1 >>, << -3 >>, << 1 >> >>,
      nts |-> << Nt(<< 1 >>), Nt(<< 3, 2 >>), Nt(<< 4 >>) >>,
      start |-> -1, alphabet |-> {1} ]

Grammars == << GrammarA, GrammarE, GrammarCyc, GrammarD, GrammarN,
               GrammarNR, GrammarC, GrammarP, GrammarU >>

G == Grammars[pGrammar]

\* Parser::getNumNonterminals, Parser::getNumTerminals
getNumNonterminals == G.nNonterminals
getNumTerminals == G.nTerminals

\* Production::getLength and Production::operator[]
getLength(p) == Len(G.prods[p])
prodAt(p, nDot) == IF nDot < getLength(p) THEN G.prods[p][nDot + 1] ELSE 0

\* ~((UINT)iIndex): -1 becomes 0, -2 becomes 1, ...
NtIndex(iNt) == (-iNt) - 1

\* Grammar::operator[]: the nonterminal's production list, or NULL
grammarAt(iIndex) ==
    IF NtIndex(iIndex) < G.nNonterminals /\ G.nts[NtIndex(iIndex) + 1].set
    THEN G.nts[NtIndex(iIndex) + 1]
    ELSE NoNt

(***************************************************************************)
(* The matching functions.  defaultMatcher compares token and terminal; a  *)
(* host matcher is any pure function of token and terminal.  The one here  *)
(* accepts token 0 for every terminal and token 0xFFFFFFFE, which is -2 as *)
(* an INT, for terminal 1.                                                 *)
(***************************************************************************)
Matchers == {"defaultMatcher", "hostMatcher"}

HostTokens == {0, -2}

defaultMatcher(nToken, nTerminal) == nToken = nTerminal
hostMatcher(nToken, nTerminal) ==
    \/ nToken = nTerminal
    \/ nToken = 0
    \/ nToken = -2 /\ nTerminal = 1
MatchingFunc(nToken, nTerminal) ==
    IF matcher = "defaultMatcher" THEN defaultMatcher(nToken, nTerminal)
    ELSE hostMatcher(nToken, nTerminal)

(***************************************************************************)
(* 32-bit arithmetic                                                       *)
(***************************************************************************)
\* the low and the high 16 bits of a 32-bit value
Lo16(x) == x % HALF
Hi16(x) == (x \div HALF) % HALF

\* bitwise exclusive or of two values below 2^16
RECURSIVE Xor(_, _)
Xor(a, b) ==
    IF a = 0 THEN b
    ELSE IF b = 0 THEN a
    ELSE ((a + b) % 2) + 2 * Xor(a \div 2, b \div 2)

Xor5(a, b, c, d, e) == Xor(Xor(Xor(Xor(a, b), c), d), e)

(***************************************************************************)
(* Addresses.  The hash of a State mixes the addresses of its production   *)
(* and its node; the allocator decides them.  A layout gives the base      *)
(* address and the stride of the two kinds of object.                      *)
(***************************************************************************)
Layouts ==
    { [prodBase |-> 6295600, prodStride |-> 48,
       nodeBase |-> 6299696, nodeStride |-> 48],
      [prodBase |-> 29388816, prodStride |-> 64,
       nodeBase |-> 29360144, nodeStride |-> 80] }

ProdAddr(p) == IF p = NULL THEN 0 ELSE layout.prodBase + layout.prodStride * p
NodeAddr(n) == IF n = NULL THEN 0 ELSE layout.nodeBase + layout.nodeStride * n

(***************************************************************************)
(* AllocCounter                                                            *)
(***************************************************************************)
NoCount == [allocs |-> 0, frees |-> 0]
Inc(c) == [c EXCEPT !.allocs = @ + 1]
Dec(c) == [c EXCEPT !.frees = @ + 1]
getBalance(c) == c.allocs - c.frees

(***************************************************************************)
(* The machine: the part of the state that the helper functions of the     *)
(* parser read and write.  Helpers take a machine and return a machine.    *)
(***************************************************************************)
\* nothing was discarded out of place, no slot in use was handed out, no
\* column without a matching cache was asked for a match, the NodeDict was
\* not reset while the H set had entries
ProperUse ==
    [misplaced |-> FALSE, linked |-> FALSE, reused |-> FALSE, unstarted |-> FALSE,
     hset |-> FALSE]

M == [ pCol |-> pCol, st |-> st, chunks |-> chunks, nodes |-> nodes,
       ndV |-> ndV, pH |-> pH, pQ |-> pQ, pQ0 |-> pQ0, ac |-> ac,
       nDisc |-> nDiscardedStates, fault |-> fault, misuse |-> misuse ]

SetM(m) ==
    /\ pCol' = m.pCol
    /\ st' = m.st
    /\ chunks' = m.chunks
    /\ nodes' = m.nodes
    /\ ndV' = m.ndV
    /\ pH' = m.pH
    /\ pQ' = m.pQ
    /\ pQ0' = m.pQ0
    /\ ac' = m.ac
    /\ nDiscardedStates' = m.nDisc
    /\ fault' = m.fault
    /\ misuse' = m.misuse

(***************************************************************************)
(* Node                                                                    *)
(***************************************************************************)
Label(iNt, nDot, pProd, nI, nJ) ==
    [nt |-> iNt, dot |-> nDot, prod |-> pProd, i |-> nI, j |-> nJ]

FamilyEntry(pProd, p1, p2) == [prod |-> pProd, p1 |-> p1, p2 |-> p2]

\* Node::Node: a fresh node with reference count 1
NewNode(m, label) ==
    LET n == Len(m.nodes) + 1 IN
    [ m |-> [m EXCEPT
               !.nodes = Append(@, [label |-> label, fam |-> << >>,
                                    rc |-> 1, live |-> TRUE]),
               !.ac.Node = Inc(@)],
      p |-> n ]

\* Node::addRef
addRef(m, n) ==
    IF n = NULL THEN m
    ELSE [m EXCEPT !.nodes[n].rc = @ + 1,
                   !.fault = @ \/ ~m.nodes[n].live]

\* Node::delRef and Node::~Node: the count is decremented; at zero the
\* family entries are walked from the head, both children released and the
\* entry deleted, then the node is freed.
RECURSIVE delRef(_, _)
RECURSIVE DestroyFamilies(_, _, _)
DestroyFamilies(m, n, fam) ==
    IF fam = << >> THEN m
    ELSE LET e == Head(fam)
             m1 == IF e.p1 # NULL THEN delRef(m, e.p1) ELSE m
             m2 == IF e.p2 # NULL THEN delRef(m1, e.p2) ELSE m1
         IN DestroyFamilies(m2, n, Tail(fam))

delRef(m, n) ==
    IF ~m.nodes[n].live THEN [m EXCEPT !.fault = TRUE]
    ELSE LET rc == m.nodes[n].rc - 1
             m1 == [m EXCEPT !.nodes[n].rc = rc]
         IN IF rc # 0 THEN m1
            ELSE LET m2 == DestroyFamilies(m1, n, m1.nodes[n].fam)
                 IN [m2 EXCEPT !.nodes[n].live = FALSE,
                               !.nodes[n].fam = << >>,
                               !.ac.Node = Dec(@)]

HasFamily(fam, e) == \E k \in 1..Len(fam) : fam[k] = e

\* addFamily without the search for an equal entry
addFamilyNoSearch(m, n, pProd, pW, pV_) ==
    addRef(addRef([m EXCEPT !.nodes[n].fam =
                      << FamilyEntry(pProd, pW, pV_) >> \o @], pW), pV_)

\* addFamily that keeps the first entry of a node only
addFamilyFirstOnly(m, n, pProd, pW, pV_) ==
    IF m.nodes[n].fam # << >> THEN m
    ELSE addFamilyNoSearch(m, n, pProd, pW, pV_)

\* Node::addFamily
addFamily(m, n, pProd, pW, pV_) ==
    IF HasFamily(m.nodes[n].fam, FamilyEntry(pProd, pW, pV_)) THEN m
    ELSE LET m1 == [m EXCEPT !.nodes[n].fam =
                        << FamilyEntry(pProd, pW, pV_) >> \o @,
                                 !.fault = @ \/ ~m.nodes[n].live]
         IN addRef(addRef(m1, pW), pV_)

(***************************************************************************)
(* NodeDict                                                                *)
(***************************************************************************)
\* a node made for every request, the dictionary not searched
RegisterNew(r) == [m |-> [r.m EXCEPT !.ndV = << r.p >> \o @], p |-> r.p]

lookupOrAddUnshared(m, label) == RegisterNew(NewNode(m, label))

\* NodeDict::lookupOrAdd
lookupOrAdd(m, label) ==
    LET hits == {k \in 1..Len(m.ndV) : m.nodes[m.ndV[k]].label = label} IN
    IF hits # {}
    THEN [m |-> m, p |-> m.ndV[CHOOSE k \in hits : \A h \in hits : k <= h]]
    ELSE LET r == NewNode(m, label) IN
         [m |-> [r.m EXCEPT !.ndV = << r.p >> \o @], p |-> r.p]

\* NodeDict::reset
RECURSIVE ndReset(_)
ndReset(m) ==
    IF m.ndV = << >> THEN m
    ELSE ndReset(delRef([m EXCEPT !.ndV = Tail(@),
                                  !.misuse.hset = @ \/ m.pH # << >>],
                        Head(m.ndV)))

(***************************************************************************)
(* State and the StateChunk arena                                          *)
(*                                                                         *)
(* A helper that needs an intermediate result more than once takes it as   *)
(* a parameter of a further operator, so that every step of the code is    *)
(* written once.                                                           *)
(***************************************************************************)
StPut(s, p, rec) == IF p \in DOMAIN s THEN [s EXCEPT ![p] = rec] ELSE (p :> rec) @@ s

\* operator new(size_t, StateChunk*&): a place for a State in the head chunk
\* or, when that is full, in a new chunk linked at the head
ChunkFull(m) ==
    \/ m.chunks = << >>
    \/ m.chunks[Len(m.chunks)] + 1 >= CHUNK_STATES

WithChunk(m) ==
    IF ChunkFull(m)
    THEN [m EXCEPT !.chunks = Append(@, 0), !.ac.Chunk = Inc(@)]
    ELSE m

PlaceIn(m) ==
    [ m |-> [m EXCEPT !.chunks[Len(m.chunks)] = @ + 1],
      p |-> (Len(m.chunks) - 1) * CHUNK_STATES + m.chunks[Len(m.chunks)] + 1 ]

AllocState(m) == PlaceIn(WithChunk(m))

\* the slot holds a state that was constructed and not destroyed
InUse(m, p) == p \in DOMAIN m.st /\ m.st[p].live

\* State::State(INT iNt, UINT nDot, Production* pProd, UINT nStart, Node* pw)
\* constructed in the place a
Construct(a, iNt, nDot, pProd, nStart, pw) ==
    [ m |-> addRef([a.m EXCEPT
                      !.st = StPut(@, a.p,
                                   [nt |-> iNt, prod |-> pProd, dot |-> nDot,
                                    start |-> nStart, w |-> pw, next |-> NULL,
                                    ntNext |-> NULL, live |-> TRUE]),
                      !.ac.State = Inc(@),
                      !.misuse.reused = @ \/ InUse(a.m, a.p)], pw),
      p |-> a.p ]

\* new (pChunkHead) State(iNt, nDot, pProd, nStart, pw)
NewState(m, iNt, nDot, pProd, nStart, pw) ==
    Construct(AllocState(m), iNt, nDot, pProd, nStart, pw)

\* the advanced state made without the node
NewStateAdvancedBare(m, ps, pw) ==
    NewState(m, m.st[ps].nt, m.st[ps].dot + 1, m.st[ps].prod, m.st[ps].start,
             NULL)

\* new (pChunkHead) State(ps, pw): ps advanced by one item
NewStateAdvanced(m, ps, pw) ==
    NewState(m, m.st[ps].nt, m.st[ps].dot + 1, m.st[ps].prod, m.st[ps].start, pw)

\* State::~State
ReleaseW(m, w) == IF w # NULL THEN delRef(m, w) ELSE m

DestroyState(m, ps) ==
    [ReleaseW(m, m.st[ps].w) EXCEPT
        !.st[ps].w = NULL, !.st[ps].live = FALSE,
        !.ac.State = Dec(@),
        !.fault = @ \/ ~m.st[ps].live]

\* discardState: run the destructor and go back one place in the head chunk
Rewind(m) ==
    [m EXCEPT !.chunks[Len(m.chunks)] = @ - 1, !.nDisc = @ + 1]

\* the slot last handed out by the head chunk and not taken back: what the
\* ASSERTs of lines 368-369 compare pState with
TopSlot(m) ==
    IF m.chunks = << >> \/ m.chunks[Len(m.chunks)] = 0 THEN NULL
    ELSE (Len(m.chunks) - 1) * CHUNK_STATES + m.chunks[Len(m.chunks)]

\* the state is linked into a column or a scan agenda: a list begins with
\* it, or a state in use has it as its m_pNext
LinkedIn(m, ps) ==
    \/ ps = m.pQ
    \/ ps = m.pQ0
    \/ \E q \in DOMAIN m.st : m.st[q].live /\ m.st[q].next = ps
    \/ \E e \in DOMAIN m.pCol : \E n \in DOMAIN m.pCol[e].hash :
          m.pCol[e].hash[n].head = ps

Discarding(m, ps) ==
    [m EXCEPT !.misuse.misplaced = @ \/ ps # TopSlot(m),
              !.misuse.linked = @ \/ LinkedIn(m, ps)]

discardState(m, ps) == Rewind(DestroyState(Discarding(m, ps), ps))

\* the new node taken over without a count for it
incrementUncounted(m, ps, pwNew) ==
    [ReleaseW(m, m.st[ps].w) EXCEPT
        !.st[ps].dot = @ + 1, !.st[ps].next = NULL, !.st[ps].w = pwNew]

\* State::increment: the new node is referenced first, then the old released
increment(m, ps, pwNew) ==
    [ReleaseW(addRef(m, pwNew), m.st[ps].w) EXCEPT
        !.st[ps].dot = @ + 1, !.st[ps].next = NULL, !.st[ps].w = pwNew]

\* State::prodDot
prodDot(s) == prodAt(s.prod, s.dot)

\* State::getHash, as its high and low 16 bits
getHash(s) ==
    [ hi |-> Xor5(Hi16(s.nt), Hi16(ProdAddr(s.prod)), Hi16(s.dot * 128),
                  Hi16(s.start * 512), Hi16(NodeAddr(s.w) * 2)),
      lo |-> Xor5(Lo16(s.nt), Lo16(ProdAddr(s.prod)), Lo16(s.dot * 128),
                  Lo16(s.start * 512), Lo16(NodeAddr(s.w) * 2)) ]

\* h % HASH_BINS
ModBins(h) == ((h.hi % HASH_BINS) * (HALF % HASH_BINS) + h.lo) % HASH_BINS

HashBin(s) == ModBins(getHash(s))

\* State::operator==
StateEq(t, other) ==
    /\ t.nt = other.nt
    /\ t.prod = other.prod
    /\ t.dot = other.dot
    /\ t.start = other.start
    /\ t.w = other.w

\* State::getResult
getResult(s, iStart) ==
    IF s.nt = iStart /\ prodDot(s) = 0 /\ s.start = 0 THEN s.w ELSE NULL

(***************************************************************************)
(* Column.  Column k is pCol[k + 1].  Only the hash bins that were ever    *)
(* written are kept; every other bin is all zero.  calls[t + 1] counts,    *)
(* for observation only, the invocations of the matching function for      *)
(* terminal t since the column's startParse.                               *)
(***************************************************************************)
ZeroBin == [head |-> NULL, tail |-> NULL, enum |-> NULL]
BinAt(c, n) == IF n \in DOMAIN c.hash THEN c.hash[n] ELSE ZeroBin
BinPut(c, n, b) ==
    IF n \in DOMAIN c.hash THEN [c EXCEPT !.hash[n] = b]
    ELSE [c EXCEPT !.hash = (n :> b) @@ @]

\* a column whose token is never the sentinel: the last column is given
\* token 0
NewColumnNoSentinel(nToken) ==
    [ token |-> IF nToken = SENTINEL THEN 0 ELSE nToken,
      nt |-> [k \in 1..getNumNonterminals |-> NULL],
      cache |-> << >>,
      calls |-> << >>,
      visited |-> << >>,
      expanded |-> [k \in 1..getNumNonterminals |-> 0],
      hash |-> << >>,
      enumBin |-> 0 ]

\* Column::Column
NewColumn(nToken) ==
    [ token |-> nToken,
      nt |-> [k \in 1..getNumNonterminals |-> NULL],
      cache |-> << >>,
      calls |-> << >>,
      visited |-> << >>,
      expanded |-> [k \in 1..getNumNonterminals |-> 0],
      hash |-> << >>,
      enumBin |-> 0 ]

\* Column::startParse: a zeroed matching cache
startParse(m, e) ==
    [m EXCEPT !.pCol[e + 1].cache = [k \in 1..(getNumTerminals + 1) |-> 0],
              !.pCol[e + 1].calls = [k \in 1..(getNumTerminals + 1) |-> 0]]

\* the cache kept
stopParseKeep(m, e) == m

\* Column::stopParse
stopParse(m, e) == [m EXCEPT !.pCol[e + 1].cache = << >>]

RECURSIVE InBin(_, _, _)
InBin(s, q, p) ==
    IF q = NULL THEN FALSE
    ELSE IF StateEq(s[q], s[p]) THEN TRUE
    ELSE InBin(s, s[q].next, p)

\* Column::addState, lines 518-528: link p at the tail of its hash bin
LinkBin(m, e, p, nBin, ph) ==
    [m EXCEPT
       !.st = IF ph.head = NULL THEN [@ EXCEPT ![p].next = NULL]
              ELSE [@ EXCEPT ![p].next = NULL, ![ph.tail].next = p],
       !.pCol[e + 1] =
           BinPut(@, nBin,
                  IF ph.head = NULL THEN [ph EXCEPT !.head = p, !.tail = p]
                  ELSE [ph EXCEPT !.tail = p])]

\* the state made the head of its list without the old head behind it
LinkNtHeadOnly(m, e, p, iItem) ==
    IF iItem < 0
    THEN [m EXCEPT !.pCol[e + 1].nt[NtIndex(iItem) + 1] = p]
    ELSE m

\* Column::addState, lines 529-537: a state with a nonterminal at its dot is
\* linked at the head of that nonterminal's list
LinkNt(m, e, p, iItem) ==
    IF iItem < 0
    THEN [m EXCEPT !.st[p].ntNext = m.pCol[e + 1].nt[NtIndex(iItem) + 1],
                   !.pCol[e + 1].nt[NtIndex(iItem) + 1] = p]
    ELSE m

AddToBin(m, e, p, nBin) ==
    IF InBin(m.st, BinAt(m.pCol[e + 1], nBin).head, p)
    THEN [m |-> m, ok |-> FALSE]
    ELSE [m |-> LinkNt(LinkBin(m, e, p, nBin, BinAt(m.pCol[e + 1], nBin)),
                       e, p, prodDot(m.st[p])),
          ok |-> TRUE]

\* Column::addState
addState(m, e, p) == AddToBin(m, e, p, HashBin(m.st[p]))

\* Column::nextState.  The loop starts at bin m_nEnumBin and goes round the
\* bins once; a bin that was never written can return nothing, so the first
\* bin in that order that can return a state is found among the written ones.
BinCanReturn(s, b) ==
    \/ b.enum = NULL /\ b.head # NULL
    \/ b.enum # NULL /\ s[b.enum].next # NULL

EnumCandidates(m, e) ==
    {n \in DOMAIN m.pCol[e + 1].hash :
        BinCanReturn(m.st, m.pCol[e + 1].hash[n])}

EnumDist(c, n) == (n - c.enumBin) % HASH_BINS

\* the state returned again: the bin's position not moved on
EnumReturnStay(m, e, n, p) ==
    [ m |-> [m EXCEPT !.pCol[e + 1].enumBin = n,
                      !.pCol[e + 1].visited = Append(@, p)],
      p |-> p ]

\* visited records what this enumeration has returned so far
EnumReturn(m, e, n, p) ==
    [ m |-> [m EXCEPT !.pCol[e + 1].hash[n].enum = p,
                      !.pCol[e + 1].enumBin = n,
                      !.pCol[e + 1].visited = Append(@, p)],
      p |-> p ]

EnumFromBin(m, e, n, b) ==
    EnumReturn(m, e, n, IF b.enum = NULL THEN b.head ELSE m.st[b.enum].next)

EnumPick(m, e, cand) ==
    IF cand = {} THEN [m |-> m, p |-> NULL]
    ELSE LET n == CHOOSE x \in cand : \A y \in cand :
                     EnumDist(m.pCol[e + 1], x) <= EnumDist(m.pCol[e + 1], y)
         IN EnumFromBin(m, e, n, m.pCol[e + 1].hash[n])

nextState(m, e) == EnumPick(m, e, EnumCandidates(m, e))

\* Column::resetEnum
resetEnum(m, e) ==
    [m EXCEPT !.pCol[e + 1].hash =
                  [n \in DOMAIN @ |-> [@[n] EXCEPT !.enum = NULL]],
              !.pCol[e + 1].enumBin = 0,
              !.pCol[e + 1].visited = << >>]

\* Column::getNtHead
getNtHead(m, e, iNt) == m.pCol[e + 1].nt[NtIndex(iNt) + 1]

\* Column::matches, lines 589-598: the matching function is asked, unless
\* the column is the sentinel, and the answer is cached
\* the answer not written to the cache
AskMatcherNoStore(m, e, nTerminal, called, b) ==
    [ m |-> [m EXCEPT
               !.pCol[e + 1].calls[nTerminal + 1] = IF called THEN @ + 1 ELSE @,
               !.ac.Matches = IF called THEN Inc(@) ELSE @],
      b |-> b ]

AskMatcher(m, e, nTerminal, called, b) ==
    [ m |-> [m EXCEPT
               !.pCol[e + 1].cache[nTerminal + 1] = IF b THEN 129 ELSE 128,
               !.pCol[e + 1].calls[nTerminal + 1] = IF called THEN @ + 1 ELSE @,
               !.ac.Matches = IF called THEN Inc(@) ELSE @],
      b |-> b ]

\* matches without the test for the sentinel token
matchesAnyToken(m, e, nTerminal) ==
    IF m.pCol[e + 1].cache = << >>
    THEN [m |-> [m EXCEPT !.fault = TRUE], b |-> FALSE]
    ELSE IF m.pCol[e + 1].cache[nTerminal + 1] >= 128
    THEN [m |-> m, b |-> m.pCol[e + 1].cache[nTerminal + 1] % 2 = 1]
    ELSE AskMatcher(m, e, nTerminal, TRUE,
                    MatchingFunc(m.pCol[e + 1].token, nTerminal))

\* Column::matches
matches(m, e, nTerminal) ==
    IF m.pCol[e + 1].cache = << >>
    THEN [m |-> [m EXCEPT !.fault = TRUE, !.misuse.unstarted = TRUE],
          b |-> FALSE]
    ELSE IF m.pCol[e + 1].cache[nTerminal + 1] >= 128
    THEN [m |-> m, b |-> m.pCol[e + 1].cache[nTerminal + 1] % 2 = 1]
    ELSE AskMatcher(m, e, nTerminal, m.pCol[e + 1].token # SENTINEL,
                    /\ m.pCol[e + 1].token # SENTINEL
                    /\ MatchingFunc(m.pCol[e + 1].token, nTerminal))

(***************************************************************************)
(* Parser                                                                  *)
(***************************************************************************)
\* pY->addFamily(pProd, pW, pV); return pY
FamilyInto(r, pProd, pW, pV_) ==
    [m |-> addFamily(r.m, r.p, pProd, pW, pV_), p |-> r.p]

\* the label without the change for a completed production
NodeLabelUnpacked(s, nDot, nLen, nEnd) ==
    Label(s.nt, nDot, s.prod, s.start, nEnd)

\* the label of Parser::makeNode, lines 998-1007
NodeLabel(s, nDot, nLen, nEnd) ==
    IF nDot >= nLen THEN Label(s.nt, 0, NULL, s.start, nEnd)
    ELSE Label(s.nt, nDot, s.prod, s.start, nEnd)

\* makeNode without the return of pV for an advanced dot of 1
makeNodeEager(m, ps, nEnd, pV_) ==
    FamilyInto(lookupOrAdd(m, NodeLabel(m.st[ps], m.st[ps].dot + 1,
                                        getLength(m.st[ps].prod), nEnd)),
               m.st[ps].prod, m.st[ps].w, pV_)

\* Parser::makeNode
makeNode(m, ps, nEnd, pV_) ==
    IF m.st[ps].dot + 1 = 1 /\ getLength(m.st[ps].prod) >= 2
    THEN [m |-> m, p |-> pV_]
    ELSE FamilyInto(lookupOrAdd(m, NodeLabel(m.st[ps], m.st[ps].dot + 1,
                                             getLength(m.st[ps].prod), nEnd)),
                    m.st[ps].prod, m.st[ps].w, pV_)

\* the state linked into the list whatever matches answered
LinkAlways(r, ps, q) ==
    [m |-> [r.m EXCEPT !.st[ps].next = r.m[q], ![q] = ps], ok |-> TRUE]

\* Parser::push, lines 1019-1027; q names the agenda passed by reference
LinkIfMatch(r, ps, q) ==
    IF r.b THEN [m |-> [r.m EXCEPT !.st[ps].next = r.m[q], ![q] = ps],
                 ok |-> TRUE]
    ELSE [m |-> r.m, ok |-> FALSE]

\* Parser::push
push(m, ps, e, q) ==
    IF prodDot(m.st[ps]) <= 0 THEN addState(m, e, ps)
    ELSE LinkIfMatch(matches(m, e, prodDot(m.st[ps])), ps, q)

\* if (!this->push(...)) discardState(pChunkHead, ps)
Settle(t, ps) == IF t.ok THEN t.m ELSE discardState(t.m, ps)

\* State* ps = new ...; if (!this->push(nHandle, ps, pE, pQ)) discardState(...)
PushOrDiscard(r, e, q) == Settle(push(r.m, r.p, e, q), r.p)

(***************************************************************************)
(* The inputs of one call                                                  *)
(***************************************************************************)
RECURSIVE SeqsUpTo(_, _)
SeqsUpTo(S, n) ==
    IF n = 0 THEN { << >> }
    ELSE LET shorter == SeqsUpTo(S, n - 1) IN
         shorter \cup {Append(t, x) : t \in {u \in shorter : Len(u) = n - 1}, x \in S}

\* The tokens a host may hand in: with the default matcher the terminals of
\* the grammar, with the host matcher its own tokens and terminal 1
Alphabet(g, f) ==
    IF f = "hostMatcher" THEN HostTokens \cup {1} ELSE Grammars[g].alphabet

NoList == [null |-> TRUE, list |-> << >>]
List(t) == [null |-> FALSE, list |-> t]

\* The token of column k: pnToklist ? pnToklist[k] : k
TokenAt(k) == IF pnToklist.null THEN k ELSE pnToklist.list[k + 1]

NoCounts ==
    [Node |-> NoCount, State |-> NoCount, Chunk |-> NoCount,
     Column |-> NoCount, HNode |-> NoCount, Matches |-> NoCount]

(***************************************************************************)
(* The binary grammar file and the Grammar object of Grammar::readBinary   *)
(***************************************************************************)
SIGNATURE_LENGTH == 16
MAX_LEN_PROD == 256

\* "Reynir " in ASCII
Reynir == << 82, 101, 121, 110, 105, 114, 32 >>

\* memcmp(abSignature, "Reynir ", 7) == 0
StartsWithReynir(sig) == Len(sig) >= 7 /\ SubSeq(sig, 1, 7) = Reynir

\* a file: its first bytes, up to SIGNATURE_LENGTH of them, and the 32-bit
\* words that follow.  A file that ends inside a word reads like the file
\* without that word.
NoFile == [exists |-> FALSE, sig |-> << >>, words |-> << >>]

\* Grammar::reset, Grammar::Grammar(void): no nonterminals, no terminals,
\* root 0
EmptyGrammar == [nNonterminals |-> 0, nTerminals |-> 0, iRoot |-> 0, nts |-> << >>]

\* the locals of readBinary before the call, around the Grammar object g
Unloaded(g) ==
    [at |-> "open", pos |-> 0, nTerminals |-> 0, nNonterminals |-> 0, n |-> 0,
     j |-> 0, nLenPlist |-> 0, pnt |-> << >>, armed |-> FALSE, g |-> g,
     ret |-> "none", short |-> FALSE, tooLong |-> FALSE]

InitRest ==
    /\ pc = "call"
    /\ grammarFile = NoFile
    /\ rd = Unloaded(EmptyGrammar)
    /\ errorToken = 57005
    /\ i = 0
    /\ pCol = << >>
    /\ st = << >>
    /\ chunks = << >>
    /\ nodes = << >>
    /\ ndV = << >>
    /\ pH = << >>
    /\ pQ = NULL
    /\ pQ0 = NULL
    /\ pbSeen = << >>
    /\ pState = NULL
    /\ pV = NULL
    /\ pResult = NULL
    /\ nComb = 0
    /\ ac = NoCounts
    /\ nDiscardedStates = 0
    /\ fault = FALSE
    /\ misuse = ProperUse

\* A call with a grammar, its start nonterminal and a token list
InitParse ==
    /\ pGrammar \in 1..Len(Grammars)
    /\ matcher \in Matchers
    /\ layout \in Layouts
    /\ iStartNt = Grammars[pGrammar].start
    /\ \/ /\ pnToklist \in {List(t) : t \in SeqsUpTo(Alphabet(pGrammar, matcher), MaxTokens)}
          /\ nTokens = Len(pnToklist.list)
       \/ /\ pnToklist = NoList
          /\ matcher = "hostMatcher"
          /\ nTokens \in 0..MaxTokens
    /\ InitRest

\* A call with arguments that parse has to reject or that name another
\* nonterminal than the grammar's start
InitArgs ==
    /\ pGrammar \in 0..Len(Grammars)
    /\ matcher = "defaultMatcher"
    /\ layout \in Layouts
    /\ iStartNt \in {0, 1, -1, -2, -3}
    /\ pGrammar # 0 => iStartNt # Grammars[pGrammar].start
    /\ pnToklist \in {List(t) : t \in SeqsUpTo({1}, 2)}
    /\ nTokens = Len(pnToklist.list)
    /\ InitRest

\* etest.cpp runTest_1: pParser->parse(0, -4, &nErrorToken, 9, tokens)
ScenarioTokens == << 1, 2, 3, 1, 2, 4, 3, 1, 2 >>

InitTest ==
    /\ pGrammar = 1
    /\ matcher = "defaultMatcher"
    /\ layout \in Layouts
    /\ iStartNt = -4
    /\ pnToklist = List(ScenarioTokens)
    /\ nTokens = 9
    /\ InitRest

Init == InitParse \/ InitArgs \/ InitTest

Inputs ==
    << pGrammar, matcher, layout, iStartNt, nTokens, pnToklist, grammarFile, rd >>

(***************************************************************************)
(* Parser::parse, lines 1033-1047: the sanity checks                       *)
(***************************************************************************)
\* the sanity checks without the one on nTokens
ArgsOkNoTokenCheck ==
    /\ pGrammar # NULL
    /\ iStartNt < 0
    /\ grammarAt(iStartNt).set

ArgsOk ==
    /\ nTokens # 0
    /\ pGrammar # NULL
    /\ iStartNt < 0
    /\ grammarAt(iStartNt).set

SanityFail ==
    /\ pc = "call"
    /\ ~ArgsOk
    /\ errorToken' = 0
    /\ pResult' = NULL
    /\ pc' = "returned"
    /\ UNCHANGED << Inputs, nComb, i, pCol, st, chunks, nodes, ndV, pH, pQ, pQ0,
                    pbSeen, pState, pV, ac, nDiscardedStates, fault,
                    misuse >>

(***************************************************************************)
(* Parser::parse, lines 1049-1075: the columns, the first column's cache,  *)
(* the initial states, the node dictionary and the seen bitmap             *)
(***************************************************************************)
\* history: the productions of nonterminal iNt are about to be pushed as
\* fresh states of column e
Expanding(m, e, iNt) ==
    [m EXCEPT !.pCol[e + 1].expanded[NtIndex(iNt) + 1] = @ + 1]

RECURSIVE SeedLoop(_, _)
SeedLoop(m, plist) ==
    IF plist = << >> THEN m
    ELSE SeedLoop(PushOrDiscard(NewState(m, iStartNt, 0, Head(plist), 0, NULL),
                                0, "pQ0"),
                  Tail(plist))

RECURSIVE IncBy(_, _)
IncBy(c, n) == IF n = 0 THEN c ELSE IncBy(Inc(c), n - 1)

ParseInit ==
    /\ pc = "call"
    /\ ArgsOk
    /\ errorToken' = 0
    /\ SetM([SeedLoop(Expanding(startParse(
                [M EXCEPT
                   !.pCol = [k \in 1..(nTokens + 1) |->
                                NewColumn(IF k <= nTokens THEN TokenAt(k - 1)
                                          ELSE SENTINEL)],
                   !.ac.Column = IncBy(@, nTokens + 1),
                   !.pQ0 = NULL], 0), 0, iStartNt),
                grammarAt(iStartNt).head)
             EXCEPT !.pQ = NULL])
    /\ pbSeen' = [k \in 1..getNumNonterminals |-> 204]
    /\ i' = 0
    /\ pc' = "loop"
    /\ UNCHANGED << Inputs, nComb, pState, pV, pResult >>

(***************************************************************************)
(* Parser::parse, lines 1082-1101: the head of the main loop               *)
(***************************************************************************)
\* no state in the column and nothing scanned into it: break
Break(r) ==
    /\ r.p = NULL /\ pQ0 = NULL
    /\ SetM(r.m)

LoopFail ==
    /\ pc = "loop"
    /\ i < nTokens + 1
    /\ Break(nextState(M, i))
    /\ errorToken' = i
    /\ pc' = "cleanup"
    /\ UNCHANGED << Inputs, nComb, i, pbSeen, pState, pV, pResult >>

\* the loop entered only for a column that holds a state: with an empty
\* column and a scanned state waiting, the loop head has no way on
EnterNonEmpty(r) ==
    /\ r.p # NULL
    /\ pState' = r.p
    /\ SetM([r.m EXCEPT !.pQ = pQ0, !.pQ0 = NULL, !.pH = << >>])

Enter(r) ==
    /\ ~(r.p = NULL /\ pQ0 = NULL)
    /\ pState' = r.p
    /\ SetM([r.m EXCEPT !.pQ = pQ0, !.pQ0 = NULL, !.pH = << >>])

LoopEnter ==
    /\ pc = "loop"
    /\ i < nTokens + 1
    /\ Enter(nextState(M, i))
    /\ pbSeen' = [k \in 1..getNumNonterminals |-> 0]
    /\ pc' = "agenda"
    /\ UNCHANGED << Inputs, nComb, errorToken, i, pV, pResult >>

\* pState = pEi->nextState()
Advance(r) ==
    /\ pState' = r.p
    /\ SetM(r.m)

(***************************************************************************)
(* Parser::parse, lines 1107-1135: the Earley predictor                    *)
(***************************************************************************)
RECURSIVE PredictLoop(_, _, _)
PredictLoop(m, iItem, plist) ==
    IF plist = << >> THEN m
    ELSE PredictLoop(PushOrDiscard(NewState(m, iItem, 0, Head(plist), i, NULL),
                                   i, "pQ"),
                     iItem, Tail(plist))

\* State* psNew = new (pChunkHead) State(pState, pY), pushed or discarded
AdvancePush(y, ps) == PushOrDiscard(NewStateAdvanced(y.m, ps, y.p), i, "pQ")

\* the elements of the H set that refer to the nonterminal at the dot
HStep(m, ps, iItem, h) ==
    IF h.nt = iItem THEN AdvancePush(makeNode(m, ps, i, h.v), ps) ELSE m

RECURSIVE HLoop(_, _, _, _)
HLoop(m, ps, iItem, ph) ==
    IF ph = << >> THEN m
    ELSE HLoop(HStep(m, ps, iItem, Head(ph)), ps, iItem, Tail(ph))

\* the H set never consulted: an epsilon completion that came before the
\* prediction is lost
HLoopSkipped(m, ps, iItem) == m

HLoopFrom(m, ps, iItem) == HLoop(m, ps, iItem, m.pH)

\* the H set consulted only when the nonterminal is predicted
predictorSeenOnly(m, ps, iItem) ==
    IF pbSeen[NtIndex(iItem) + 1] = 0
    THEN HLoopFrom(PredictLoop(Expanding(m, i, iItem), iItem,
                               grammarAt(iItem).head), ps, iItem)
    ELSE m

predictor(m, ps, iItem) ==
    HLoopFrom(IF pbSeen[NtIndex(iItem) + 1] = 0
              THEN PredictLoop(Expanding(m, i, iItem), iItem,
                               grammarAt(iItem).head)
              ELSE m,
              ps, iItem)

Predictor ==
    /\ pc = "agenda"
    /\ pState # NULL
    /\ prodDot(st[pState]) < 0
    /\ Advance(nextState(predictor(M, pState, prodDot(st[pState])), i))
    /\ pbSeen' = [pbSeen EXCEPT ![NtIndex(prodDot(st[pState])) + 1] = 1]
    /\ UNCHANGED << Inputs, nComb, errorToken, i, pc, pV, pResult >>

(***************************************************************************)
(* Parser::parse, lines 1136-1160: the Earley completer                    *)
(***************************************************************************)
HNode(iNt, pv) == [nt |-> iNt, v |-> pv]

RECURSIVE CompleteLoop(_, _, _)
RECURSIVE CompleteNext(_, _, _)
CompleteNext(m, psNt, pW) == CompleteLoop(m, m.st[psNt].ntNext, pW)

CompleteLoop(m, psNt, pW) ==
    IF psNt = NULL THEN m
    ELSE CompleteNext(AdvancePush(makeNode(m, psNt, i, pW), psNt), psNt, pW)

\* only the state at the head of the chain advanced
CompleteChainHead(m, nStart, iNtB, pW) ==
    IF getNtHead(m, nStart, iNtB) = NULL THEN m
    ELSE AdvancePush(makeNode(m, getNtHead(m, nStart, iNtB), i, pW),
                     getNtHead(m, nStart, iNtB))

CompleteChain(m, nStart, iNtB, pW) ==
    CompleteLoop(m, getNtHead(m, nStart, iNtB), pW)

\* every completed state entered into the H set, wherever it started
CompleteWithAlways(r, iNtB, nStart) ==
    CompleteChain([r.m EXCEPT !.pH = << HNode(iNtB, r.p) >> \o @,
                              !.ac.HNode = Inc(@)],
                  nStart, iNtB, r.p)

\* lines 1147-1151: a state that started in this column enters the H set
CompleteWith(r, iNtB, nStart) ==
    CompleteChain(IF nStart = i
                  THEN [r.m EXCEPT !.pH = << HNode(iNtB, r.p) >> \o @,
                                   !.ac.HNode = Inc(@)]
                  ELSE r.m,
                  nStart, iNtB, r.p)

\* lines 1141-1146: the node of the completed state; a state without one
\* completed an epsilon production
CompletedNode(m, ps) ==
    IF m.st[ps].w = NULL
    THEN FamilyInto(lookupOrAdd(m, Label(m.st[ps].nt, 0, NULL, i, i)),
                    m.st[ps].prod, NULL, NULL)
    ELSE [m |-> m, p |-> m.st[ps].w]

completer(m, ps) ==
    CompleteWith(CompletedNode(m, ps), m.st[ps].nt, m.st[ps].start)

\* a state with a terminal at its dot is passed over
Completer ==
    /\ pc = "agenda"
    /\ pState # NULL
    /\ prodDot(st[pState]) >= 0
    /\ Advance(nextState(IF prodDot(st[pState]) = 0
                         THEN completer(M, pState) ELSE M, i))
    /\ UNCHANGED << Inputs, nComb, errorToken, i, pc, pbSeen, pV, pResult >>

(***************************************************************************)
(* Parser::parse, lines 1168-1187: the end of the agenda: the H set is     *)
(* deleted, the node dictionary reset, the column's cache released and,    *)
(* when there is something to scan, the token node made and the next       *)
(* column opened                                                           *)
(***************************************************************************)
RECURSIVE DecBy(_, _)
DecBy(c, n) == IF n = 0 THEN c ELSE DecBy(Dec(c), n - 1)

\* lines 1168-1173
\* the H set left as it is
KeepH(m) == m

DeleteH(m) == [m EXCEPT !.ac.HNode = DecBy(@, Len(m.pH)), !.pH = << >>]

\* lines 1183-1186, with the token node v
\* the token node made, the next column left as it is
OpenWithoutStart(v) ==
    /\ SetM(v.m)
    /\ pV' = v.p

OpenWith(v) ==
    /\ SetM([startParse(v.m, i + 1) EXCEPT
               !.fault = @ \/ v.m.pCol[i + 2].cache # << >>])
    /\ pV' = v.p

\* lines 1182-1187
OpenNext(m) ==
    IF m.pQ = NULL
    THEN SetM(m) /\ pV' = NULL
    ELSE IF i + 1 > nTokens
    THEN SetM([m EXCEPT !.fault = TRUE]) /\ pV' = NULL
    ELSE OpenWith(NewNode(m, Label(m.pCol[i + 1].token, 0, NULL, i, i + 1)))

AgendaDone ==
    /\ pc = "agenda"
    /\ pState = NULL
    /\ OpenNext(stopParse(ndReset(DeleteH(M)), i))
    /\ pc' = "scan"
    /\ UNCHANGED << Inputs, nComb, errorToken, i, pbSeen, pState, pResult >>

(***************************************************************************)
(* Parser::parse, lines 1189-1201: the Earley scanner, one state of Q      *)
(***************************************************************************)
\* if (!this->push(nHandle, pQ, pCol[i + 1], pQ0)) pQ->~State()
\* the refused state given to discardState as the predictor does
ScanDiscard(t, q) == IF t.ok THEN t.m ELSE discardState(t.m, q)

ScanSettle(t, q) == IF t.ok THEN t.m ELSE DestroyState(t.m, q)

ScanPush(y, q) == ScanSettle(push(increment(y.m, q, y.p), q, i + 1, "pQ0"), q)

\* the scanner's node made for the column of the token, not the next one
scannerSameColumn(m, q) == ScanPush(makeNode(m, q, i, pV), q)

scanner(m, q) == ScanPush(makeNode(m, q, i + 1, pV), q)

Scanner ==
    /\ pc = "scan"
    /\ pQ # NULL
    /\ ~fault
    /\ SetM([scanner(M, pQ) EXCEPT !.pQ = st[pQ].next])
    /\ UNCHANGED << Inputs, nComb, errorToken, i, pc, pbSeen, pState, pV, pResult >>

\* lines 1203-1205 and the loop increment
ColumnDone ==
    /\ pc = "scan"
    /\ pQ = NULL
    /\ SetM(ReleaseW(M, pV))
    /\ pV' = NULL
    /\ i' = i + 1
    /\ pc' = "loop"
    /\ UNCHANGED << Inputs, nComb, errorToken, pbSeen, pState, pResult >>

(***************************************************************************)
(* Parser::parse, lines 1227-1245: the result                              *)
(***************************************************************************)
RECURSIVE ResultLoop(_, _)
RECURSIVE ResultNext(_, _)
ResultNext(r, found) == ResultLoop(r, found)

\* r is the state that nextState returned, res the result so far
ResultLoop(r, res) ==
    IF r.p = NULL \/ res # NULL THEN [m |-> r.m, p |-> res]
    ELSE ResultNext(nextState(addRef(r.m, getResult(r.m.st[r.p], iStartNt)),
                              nTokens),
                    getResult(r.m.st[r.p], iStartNt))

Found(r) ==
    /\ pResult' = r.p
    /\ errorToken' = IF r.p = NULL THEN nTokens ELSE errorToken
    /\ SetM(r.m)

Extract ==
    /\ pc = "loop"
    /\ i > nTokens
    /\ Found(ResultLoop(nextState(resetEnum(M, nTokens), nTokens), NULL))
    /\ pc' = "cleanup"
    /\ UNCHANGED << Inputs, nComb, i, pbSeen, pState, pV >>

(***************************************************************************)
(* Parser::parse, lines 1253-1267: cleanup and return                      *)
(***************************************************************************)
RECURSIVE Ascending(_)
Ascending(S) ==
    IF S = {} THEN << >>
    ELSE LET x == CHOOSE a \in S : \A b \in S : a <= b
         IN << x >> \o Ascending(S \ {x})

RECURSIVE DestroyList(_, _)
RECURSIVE DestroyRest(_, _)
DestroyRest(m, pNext) == DestroyList(m, pNext)

DestroyList(m, q) ==
    IF q = NULL THEN m
    ELSE DestroyRest(DestroyState(m, q), m.st[q].next)

RECURSIVE DestroyBins(_, _, _)
DestroyBins(m, e, bins) ==
    IF bins = << >> THEN m
    ELSE DestroyBins(DestroyList(m, m.pCol[e + 1].hash[Head(bins)].head),
                     e, Tail(bins))

\* Column::~Column
DestroyColumn(m, e) ==
    [stopParse(DestroyBins(m, e, Ascending(DOMAIN m.pCol[e + 1].hash)), e)
        EXCEPT !.pCol[e + 1].hash = << >>,
               !.pCol[e + 1].nt = << >>,
               !.ac.Column = Dec(@)]

RECURSIVE DestroyColumns(_, _)
DestroyColumns(m, e) ==
    IF e >= nTokens + 1 THEN m
    ELSE DestroyColumns(DestroyColumn(m, e), e + 1)

\* freeStates
freeStates(m) ==
    [m EXCEPT !.ac.Chunk = DecBy(@, Len(m.chunks)), !.chunks = << >>,
              !.st = << >>]

Cleanup ==
    /\ pc = "cleanup"
    /\ SetM([freeStates(DestroyColumns(M, 0)) EXCEPT !.pCol = << >>])
    /\ pbSeen' = << >>
    /\ pc' = "returned"
    /\ UNCHANGED << Inputs, nComb, errorToken, i, pState, pV, pResult >>

(***************************************************************************)
(* The caller: deleteForest, or pNode->delRef() in etest.cpp               *)
(***************************************************************************)
\* Node::numCombinations, lines 919-932.  The recursion follows every family
\* entry; stack holds the nodes whose call is in progress, and a node met
\* again below itself means the recursion never returns, which the value -1
\* stands for.  The counts of the model stay far below 2^32.
RECURSIVE Combinations(_, _)
RECURSIVE SumFamilies(_, _)
Product(n1, n2, rest) ==
    IF n1 < 0 \/ n2 < 0 \/ rest < 0 THEN -1 ELSE n1 * n2 + rest

SumFamilies(fam, stack) ==
    IF fam = << >> THEN 0
    ELSE Product(Combinations(Head(fam).p1, stack),
                 Combinations(Head(fam).p2, stack),
                 SumFamilies(Tail(fam), stack))

OneIfZero(nSum) == IF nSum = 0 THEN 1 ELSE nSum

Combinations(pNode, stack) ==
    IF pNode = NULL THEN 1
    ELSE IF nodes[pNode].label.nt >= 0 THEN 1
    ELSE IF pNode \in stack THEN -1
    ELSE OneIfZero(SumFamilies(nodes[pNode].fam, stack \cup {pNode}))

\* numCombinations(Node*), lines 1355-1358
Counted(n) ==
    /\ nComb' = IF n < 0 THEN 0 ELSE n
    /\ fault' = (fault \/ n < 0)

numCombinations ==
    /\ pc = "returned"
    /\ Counted(IF pResult = NULL THEN 0 ELSE Combinations(pResult, {}))
    /\ pc' = "counted"
    /\ UNCHANGED << Inputs, errorToken, i, pCol, st, chunks, nodes, ndV, pH,
                    pQ, pQ0, pbSeen, pState, pV, pResult, ac,
                    nDiscardedStates, misuse >>

deleteForest ==
    /\ pc \in {"returned", "counted"}
    /\ SetM(ReleaseW(M, pResult))
    /\ pc' = "released"
    /\ UNCHANGED << Inputs, nComb, errorToken, i, pbSeen, pState, pV, pResult >>

Next ==
    \/ SanityFail
    \/ ParseInit
    \/ LoopFail
    \/ LoopEnter
    \/ Predictor
    \/ Completer
    \/ AgendaDone
    \/ Scanner
    \/ ColumnDone
    \/ Extract
    \/ Cleanup
    \/ numCombinations
    \/ deleteForest

Spec == Init /\ [][Next]_vars

\* The same behaviours under more names, so that the properties of the
\* columns' contents, and those of the linked lists, the
\* state arena, the scan agendas and the reference counts, are each checked
\* in a run of their own
ColumnSpec == Init /\ [][Next]_vars

StructureSpec == Init /\ [][Next]_vars

\* the same behaviours once more, for the properties of the forest nodes that
\* the states and the H set point to
ForestSpec == Init /\ [][Next]_vars

\* and for the properties of the matching cache between startParse and
\* stopParse
CacheSpec == Init /\ [][Next]_vars

\* Parser::parse runs to completion, there is no suspension point: a step
\* that can be taken is taken: weak fairness, of the steps that decide
\* where control goes and of the steps that do the work.
ControlStep ==
    \/ SanityFail
    \/ LoopFail
    \/ LoopEnter
    \/ ColumnDone

\* The steps that do the work, and the condition under which one of them
\* can be taken: the conjunction of its guards.
WorkStep ==
    \/ ParseInit
    \/ Predictor
    \/ Completer
    \/ AgendaDone
    \/ Scanner
    \/ Extract
    \/ Cleanup

Working ==
    \/ pc = "call" /\ ArgsOk
    \/ pc = "agenda"
    \/ pc = "scan" /\ pQ # NULL /\ ~fault
    \/ pc = "loop" /\ i > nTokens
    \/ pc = "cleanup"

\* the condition under which a step of ControlStep can be taken
Controlling ==
    \/ pc = "call" /\ ~ArgsOk
    \/ pc = "loop" /\ i < nTokens + 1
    \/ pc = "scan" /\ pQ = NULL

\* from a state where control is to be decided every step is a ControlStep,
\* and from a state where work is to be done every step is a WorkStep
ControlStepsOnly == [][Controlling => ControlStep]_vars
WorkStepsOnly == [][Working => WorkStep]_vars

\* weak fairness of ControlStep and of WorkStep, with the step written as a
\* step that leaves a state where the guard holds (ControlStepsOnly,
\* WorkStepsOnly).  Every ControlStep changes pc, so ENABLED ControlStep is
\* ENABLED << ControlStep >>_vars; for WorkStep, ENABLED is written as the
\* guard Working.
ControlFair == []<>(~ENABLED ControlStep) \/ []<><< Controlling >>_vars
WorkFair == []<>(~Working) \/ []<><< Working >>_vars

FairSpec == Init /\ [][Next]_vars /\ ControlFair /\ WorkFair

(***************************************************************************)
(* Grammar::readBinary, lines 693-786.  One behaviour of LoadSpec is one   *)
(* call of readBinary on a Grammar object; each step is one stretch of the *)
(* code from a read to the next.                                           *)
(***************************************************************************)
\* the words a grammar file is made of: counts, lengths and symbols
Words == {0, 1, 257}

\* what an INT of the buffer holds that no read has filled
Garbage == {0, 1, -1}

Signatures ==
    { Reynir \o << 49, 46, 48, 48, 46, 48, 48, 0, 0 >>,
      << 82, 101, 121, 110, 105, 114 >> \o << 49, 46, 48, 48, 46, 48, 48, 0, 0, 0 >>,
      << 71 >> \o Reynir \o << 49, 46, 48, 48, 46, 48, 48, 0 >>,
      Reynir \o << 49, 46, 48, 48, 46, 48, 48, 0 >>,
      Reynir,
      << >> }

\* a Grammar object that an earlier load has filled
LoadedBefore ==
    [nNonterminals |-> 1, nTerminals |-> 1, iRoot |-> -1,
     nts |-> << [null |-> FALSE,
                 prods |-> << [id |-> 0, priority |-> 0, n |-> 1,
                               list |-> << 1 >>] >>] >>]

LoadInit ==
    /\ pc = "load"
    /\ \/ grammarFile = NoFile
       \/ grammarFile \in
             {[exists |-> TRUE, sig |-> sg, words |-> w] :
                 sg \in Signatures, w \in SeqsUpTo(Words, MaxWords)}
    /\ ~StartsWithReynir(grammarFile.sig) => Len(grammarFile.words) <= 1
    /\ rd \in {Unloaded(EmptyGrammar), Unloaded(LoadedBefore)}
    /\ pGrammar = NULL
    /\ matcher = "defaultMatcher"
    /\ layout = 1
    /\ iStartNt = 0
    /\ nTokens = 0
    /\ pnToklist = NoList
    /\ errorToken = 0
    /\ i = 0
    /\ pCol = << >>
    /\ st = << >>
    /\ chunks = << >>
    /\ nodes = << >>
    /\ ndV = << >>
    /\ pH = << >>
    /\ pQ = NULL
    /\ pQ0 = NULL
    /\ pbSeen = << >>
    /\ pState = NULL
    /\ pV = NULL
    /\ pResult = NULL
    /\ nComb = 0
    /\ ac = NoCounts
    /\ nDiscardedStates = 0
    /\ fault = FALSE
    /\ misuse = ProperUse

NotLoader ==
    << pc, pGrammar, matcher, layout, iStartNt, nTokens, pnToklist, errorToken,
       i, pCol, st, chunks, nodes, ndV, pH, pQ, pQ0, pbSeen, pState, pV,
       pResult, nComb, ac, nDiscardedStates, fault, misuse, grammarFile >>

\* File::read_UINT, File::read_INT: k more words can be read
CanRead(r, k) == r.pos + k <= Len(grammarFile.words)

WordAt(r, k) == grammarFile.words[r.pos + k]

\* return false: ~GrammarResetter resets the grammar if it was constructed
ReturnFalse(r, wasShort) ==
    [r EXCEPT !.at = "done", !.ret = "false", !.short = @ \/ wasShort,
              !.g = IF r.armed THEN EmptyGrammar ELSE @]

\* lines 700-703: this->reset(); File f(pszFilename, "rb")
Open ==
    /\ pc = "load" /\ rd.at = "open"
    /\ rd' = IF grammarFile.exists
             THEN [rd EXCEPT !.g = EmptyGrammar, !.at = "signature"]
             ELSE ReturnFalse([rd EXCEPT !.g = EmptyGrammar], FALSE)
    /\ UNCHANGED NotLoader

\* lines 704-715
ReadSignature ==
    /\ pc = "load" /\ rd.at = "signature"
    /\ rd' = IF Len(grammarFile.sig) < SIGNATURE_LENGTH
             THEN ReturnFalse(rd, TRUE)
             ELSE IF ~StartsWithReynir(grammarFile.sig)
             THEN ReturnFalse(rd, FALSE)
             ELSE [rd EXCEPT !.at = "counts"]
    /\ UNCHANGED NotLoader

\* lines 716-726
ReadCounts ==
    /\ pc = "load" /\ rd.at = "counts"
    /\ rd' = IF ~CanRead(rd, 2) THEN ReturnFalse(rd, TRUE)
             ELSE IF WordAt(rd, 2) = 0
             THEN [rd EXCEPT !.at = "done", !.ret = "true", !.pos = @ + 2]
             ELSE [rd EXCEPT !.at = "root", !.pos = @ + 2,
                             !.nTerminals = WordAt(rd, 1),
                             !.nNonterminals = WordAt(rd, 2)]
    /\ UNCHANGED NotLoader

\* lines 727-741
ReadRoot ==
    /\ pc = "load" /\ rd.at = "root"
    /\ rd' = IF ~CanRead(rd, 1) THEN ReturnFalse(rd, TRUE)
             ELSE [rd EXCEPT
                     !.at = "nonterminal", !.pos = @ + 1, !.n = 0,
                     !.armed = TRUE,
                     !.g = [nNonterminals |-> rd.nNonterminals,
                            nTerminals |-> rd.nTerminals,
                            iRoot |-> WordAt(rd, 1),
                            nts |-> [k \in 1..rd.nNonterminals |->
                                        [null |-> TRUE, prods |-> << >>]]]]
    /\ UNCHANGED NotLoader

\* lines 743-748 and 783-785: the head of the loop over the nonterminals
ReadNonterminal ==
    /\ pc = "load" /\ rd.at = "nonterminal"
    /\ rd' = IF rd.n >= rd.nNonterminals
             THEN [rd EXCEPT !.at = "done", !.ret = "true", !.armed = FALSE]
             ELSE IF ~CanRead(rd, 1) THEN ReturnFalse(rd, TRUE)
             ELSE [rd EXCEPT !.at = "production", !.pos = @ + 1, !.j = 0,
                             !.nLenPlist = WordAt(rd, 1), !.pnt = << >>]
    /\ UNCHANGED NotLoader

\* line 770: f.read(aiProd, nLenProd * sizeof(INT)), its result not looked
\* at: the words the file still has, then what the buffer held
Delivered(r, nLenProd) ==
    IF r.pos + 3 + nLenProd <= Len(grammarFile.words) THEN nLenProd
    ELSE Len(grammarFile.words) - (r.pos + 3)

aiProd(r, nLenProd, junk) ==
    [k \in 1..nLenProd |->
        IF k <= Delivered(r, nLenProd) THEN WordAt(r, 3 + k)
        ELSE junk[k - Delivered(r, nLenProd)]]

\* lines 772-774: new Production(nId, nPriority, nLenProd, aiProd), added at
\* the head of the nonterminal's list
AddProduction(r, nLenProd, junk) ==
    [r EXCEPT
       !.pos = @ + 3 + Delivered(r, nLenProd),
       !.j = @ + 1,
       !.short = @ \/ Delivered(r, nLenProd) < nLenProd,
       !.pnt = << [id |-> WordAt(r, 1), priority |-> WordAt(r, 2),
                   n |-> nLenProd, list |-> aiProd(r, nLenProd, junk)] >> \o @]

\* lines 750-775: one production
ReadProduction ==
    /\ pc = "load" /\ rd.at = "production"
    /\ rd.j < rd.nLenPlist
    /\ IF ~CanRead(rd, 3) THEN rd' = ReturnFalse(rd, TRUE)
       ELSE IF WordAt(rd, 3) > MAX_LEN_PROD
       THEN rd' = ReturnFalse([rd EXCEPT !.tooLong = TRUE], FALSE)
       ELSE \E junk \in [1..(WordAt(rd, 3) - Delivered(rd, WordAt(rd, 3))) -> Garbage] :
               rd' = AddProduction(rd, WordAt(rd, 3), junk)
    /\ UNCHANGED NotLoader

\* line 777: this->setNonterminal(-1 - (INT)n, pnt), and n++
SetNonterminal ==
    /\ pc = "load" /\ rd.at = "production"
    /\ rd.j >= rd.nLenPlist
    /\ rd' = [rd EXCEPT !.at = "nonterminal", !.n = @ + 1,
                        !.g.nts[rd.n + 1] = [null |-> FALSE, prods |-> rd.pnt]]
    /\ UNCHANGED NotLoader

LoadNext ==
    \/ Open
    \/ ReadSignature
    \/ ReadCounts
    \/ ReadRoot
    \/ ReadNonterminal
    \/ ReadProduction
    \/ SetNonterminal

LoadSpec == LoadInit /\ [][LoadNext]_vars

(***************************************************************************)
(* The language of the grammar, by definition: the least set of triples    *)
(* (A, a, b) such that some production of A derives tokens a .. b-1, a     *)
(* terminal deriving one token that the matching function accepts for it.  *)
(***************************************************************************)
Spans == {<< a, b >> \in (0..nTokens) \X (0..nTokens) : a <= b}

Triples ==
    {<< -k, sp[1], sp[2] >> : k \in {x \in 1..G.nNonterminals : G.nts[x].set},
                              sp \in Spans}

RECURSIVE SeqSpan(_, _, _, _)
SeqSpan(items, a, b, D) ==
    IF items = << >> THEN a = b
    ELSE IF Head(items) < 0
    THEN \E c \in a..b : /\ << Head(items), a, c >> \in D
                         /\ SeqSpan(Tail(items), c, b, D)
    ELSE /\ a < b
         /\ MatchingFunc(TokenAt(a), Head(items))
         /\ SeqSpan(Tail(items), a + 1, b, D)

ProdsOf(iNt) == {grammarAt(iNt).head[k] : k \in 1..Len(grammarAt(iNt).head)}

DeriveStep(D) ==
    {t \in Triples : \E p \in ProdsOf(t[1]) : SeqSpan(G.prods[p], t[2], t[3], D)}

RECURSIVE DeriveFrom(_, _)
DeriveFrom(D, D2) == IF D2 = D THEN D ELSE DeriveFrom(D2, DeriveStep(D2))

Derivable == DeriveFrom({}, DeriveStep({}))

\* the start nonterminal derives the whole token sequence
InLanguage == << iStartNt, 0, nTokens >> \in Derivable

\* the grammar and the start nonterminal are usable
GrammarOk ==
    /\ pGrammar # NULL
    /\ iStartNt < 0
    /\ grammarAt(iStartNt).set

Returned == pc \in {"returned", "counted", "released"}

C1_WitnessReject ==
    /\ pc = "returned" /\ pGrammar = 1 /\ nTokens = 4
    /\ pResult = NULL /\ ~InLanguage /\ errorToken > 1

(***************************************************************************)
(* C2                                                                      *)
(***************************************************************************)
LiveNodes == {n \in 1..Len(nodes) : nodes[n].live}

\* what is still allocated: nodes, family entries, H set elements, states,
\* columns and state chunks
NothingAllocated ==
    /\ LiveNodes = {}
    /\ \A n \in 1..Len(nodes) : nodes[n].fam = << >>
    /\ getBalance(ac.Node) = 0
    /\ getBalance(ac.HNode) = 0
    /\ getBalance(ac.State) = 0
    /\ getBalance(ac.Column) = 0
    /\ getBalance(ac.Chunk) = 0
    /\ pH = << >> /\ pCol = << >> /\ chunks = << >> /\ st = << >>

\* C2: after parse has returned and the caller has released the result, no
\* Node, family entry, HNode, State, Column or state chunk remains
\* allocated, for every grammar.
C2_NoLeak == pc = "released" => NothingAllocated

\* what does hold: everything but nodes and their family entries is freed
\* when parse returns
C2_ParserFreed ==
    Returned =>
        /\ getBalance(ac.HNode) = 0
        /\ getBalance(ac.State) = 0
        /\ getBalance(ac.Column) = 0
        /\ getBalance(ac.Chunk) = 0
        /\ pH = << >> /\ pCol = << >> /\ chunks = << >> /\ st = << >>

\* the grammars of the model without a derivation A =>+ A keep C2
C2_NoLeakAcyclic == (pc = "released" /\ pGrammar \notin {3, 6}) => NothingAllocated

(***************************************************************************)
(* C3                                                                      *)
(***************************************************************************)
\* the children of a node: the non-null p1 and p2 of its family entries
Children(n) ==
    ({nodes[n].fam[k].p1 : k \in 1..Len(nodes[n].fam)}
        \cup {nodes[n].fam[k].p2 : k \in 1..Len(nodes[n].fam)}) \ {NULL}

ChildrenOf(S) == UNION {Children(n) : n \in S}

RECURSIVE ReachFrom(_, _)
ReachFrom(seen, front) ==
    IF front \subseteq seen THEN seen
    ELSE ReachFrom(seen \cup front, ChildrenOf(front \ seen))

\* the nodes reachable from n by one or more family edges
Below(n) == ReachFrom({}, Children(n))

\* the nodes reachable from n by zero or more family edges
Forest(n) == IF n = NULL THEN {} ELSE {n} \cup Below(n)

\* C3: the forest is acyclic for every grammar and input: no node is
\* reachable from itself through family entries.
C3_Acyclic == \A n \in LiveNodes : n \notin Below(n)

\* the grammars of the model without a derivation A =>+ A build acyclic
\* forests
C3_AcyclicNoUnitCycle ==
    pGrammar \notin {NULL, 3, 6} => \A n \in LiveNodes : n \notin Below(n)

(***************************************************************************)
(* C4                                                                      *)
(*                                                                         *)
(* Token e can be scanned when the tokens 0 .. e are the beginning of a    *)
(* sentence: every nonterminal of the grammars above derives some string,  *)
(* so an Earley state that scans token e exists exactly then.              *)
(***************************************************************************)
\* items, from token a on, derive a string that begins with tokens a .. nEnd-1;
\* P holds the pairs (A, a) for which nonterminal A does, D is Derivable
RECURSIVE PrefixSeq(_, _, _, _, _)
PrefixSeq(items, a, nEnd, P, D) ==
    IF items = << >> THEN FALSE
    ELSE IF Head(items) < 0
    THEN \/ << Head(items), a >> \in P
         \/ \E c \in a..(nEnd - 1) :
                /\ << Head(items), a, c >> \in D
                /\ PrefixSeq(Tail(items), c, nEnd, P, D)
    ELSE /\ MatchingFunc(TokenAt(a), Head(items))
         /\ (a + 1 = nEnd \/ PrefixSeq(Tail(items), a + 1, nEnd, P, D))

PrefixStep(P, nEnd, D) ==
    {t \in {<< -k, a >> : k \in {x \in 1..G.nNonterminals : G.nts[x].set},
                          a \in 0..(nEnd - 1)} :
        \E p \in ProdsOf(t[1]) : PrefixSeq(G.prods[p], t[2], nEnd, P, D)}

RECURSIVE PrefixFrom(_, _, _, _)
PrefixFrom(P, P2, nEnd, D) ==
    IF P2 = P THEN P ELSE PrefixFrom(P2, PrefixStep(P2, nEnd, D), nEnd, D)

\* token e can be scanned
CanScan(e, D) ==
    << iStartNt, 0 >> \in PrefixFrom({}, PrefixStep({}, e + 1, D), e + 1, D)

FailingIn(D) == {e \in 0..(nTokens - 1) : ~CanScan(e, D)}

LeastOr(F, n) == IF F = {} THEN n ELSE CHOOSE e \in F : \A f \in F : e <= f

\* the index of the first failing token, or nTokens when every token scans
FirstFailing == LeastOr(FailingIn(Derivable), nTokens)

OneLate(e) == {e, e + 1} \cap (0..nTokens)

\* C4: when parse fails, error_token is the index of the first failing
\* token: the least e such that no state can scan token e, and num_tokens
\* when every token was scanned but no completed start state exists.
C4_FirstFailing ==
    (Returned /\ ArgsOk /\ pResult = NULL) => errorToken = FirstFailing

\* what the code reports instead: the first failing token or the one after
C4_AtMostOneLate ==
    (Returned /\ ArgsOk /\ pResult = NULL) =>
        errorToken \in OneLate(FirstFailing)

\* the report is exact for every failing token but the first
C4_ReachesExact ==
    /\ Returned /\ ArgsOk /\ pResult = NULL
    /\ FirstFailing = 1 /\ errorToken = 1 /\ nTokens > 2

(***************************************************************************)
(* C5                                                                      *)
(***************************************************************************)
\* start_nt names a nonterminal of the grammar
NamesNonterminal ==
    /\ iStartNt < 0
    /\ -iStartNt <= Grammars[pGrammar].nNonterminals
    /\ Grammars[pGrammar].nts[-iStartNt].set

NothingCreated ==
    /\ ac.Column.allocs = 0 /\ ac.State.allocs = 0
    /\ ac.Node.allocs = 0 /\ ac.Chunk.allocs = 0
    /\ pCol = << >> /\ st = << >> /\ nodes = << >> /\ chunks = << >>

\* C5: parse returns null with error_token = 0 and creates no column,
\* state, node or chunk when num_tokens is 0 (even if the grammar derives
\* the empty string), when the grammar is null, when start_nt is
\* non-negative, or when start_nt does not name a nonterminal of the grammar.
C5_Rejects ==
    (/\ pc # "call"
     /\ \/ nTokens = 0
        \/ pGrammar = NULL
        \/ iStartNt >= 0
        \/ ~NamesNonterminal)
    => (pResult = NULL /\ errorToken = 0 /\ NothingCreated)

\* the empty token sequence with a grammar that derives the empty string
C5_Witness ==
    /\ pc = "returned" /\ nTokens = 0 /\ GrammarOk /\ InLanguage
    /\ pResult = NULL /\ errorToken = 0

\* the other three rejections
C5_WitnessNullGrammar == pc = "returned" /\ pGrammar = NULL /\ nTokens > 0
C5_WitnessNonNegative ==
    pc = "returned" /\ pGrammar # NULL /\ iStartNt >= 0 /\ nTokens > 0
C5_WitnessUnset ==
    /\ pc = "returned" /\ pGrammar = 7 /\ iStartNt = -2 /\ nTokens > 0
    /\ errorToken = 0

(***************************************************************************)
(* C6                                                                      *)
(***************************************************************************)
\* C6: at every point of a parse no two live forest nodes carry the same
\* label (nt, dot, prod, i, j); in particular no two nodes reachable from
\* the returned root share a label.
C6_UniqueLabels ==
    \A n1, n2 \in LiveNodes : nodes[n1].label = nodes[n2].label => n1 = n2

\* the same for the tokens below 2^31
C6_UniqueLabelsSmallTokens ==
    (\A k \in 0..(nTokens - 1) : TokenAt(k) >= 0) => C6_UniqueLabels

(***************************************************************************)
(* C7                                                                      *)
(***************************************************************************)
\* calling addFamily on node n with the triple of its k-th entry
AddAgain(n, k) ==
    addFamily(M, n, nodes[n].fam[k].prod, nodes[n].fam[k].p1, nodes[n].fam[k].p2)

\* C7: no forest node ever holds two family entries with the same
\* (prod, left, right) triple, and calling add_family with a triple already
\* present changes neither the family set nor any reference count.
C7_NoDuplicateFamily ==
    \A n \in LiveNodes :
        /\ \A k1, k2 \in 1..Len(nodes[n].fam) :
               nodes[n].fam[k1] = nodes[n].fam[k2] => k1 = k2
        /\ \A k \in 1..Len(nodes[n].fam) : AddAgain(n, k).nodes = nodes

\* a node packed with two entries of the same production, each of which
\* add_family finds again
C7_Witness ==
    \E n \in LiveNodes :
        /\ Len(nodes[n].fam) >= 2
        /\ nodes[n].fam[1].prod = nodes[n].fam[2].prod
        /\ AddAgain(n, 2).nodes = nodes

(***************************************************************************)
(* C8                                                                      *)
(*                                                                         *)
(* The number of parse trees, by definition: a tree of A over a .. b is a  *)
(* production of A and one tree for each of its nonterminals over          *)
(* consecutive spans.  Only derivable spans are followed, so a triple met  *)
(* again below itself means infinitely many trees, which -1 stands for.    *)
(***************************************************************************)
RECURSIVE Trees(_, _, _, _, _)
RECURSIVE SeqTrees(_, _, _, _, _)
RECURSIVE SumSplits(_, _, _, _, _, _)
RECURSIVE SumProds(_, _, _, _, _)
Times(n1, n2) == IF n1 < 0 \/ n2 < 0 THEN -1 ELSE n1 * n2
Plus(n1, n2) == IF n1 < 0 \/ n2 < 0 THEN -1 ELSE n1 + n2

\* the trees of nonterminal iNt over a .. b
Trees(iNt, a, b, D, stack) ==
    IF << iNt, a, b >> \in stack THEN -1
    ELSE SumProds(grammarAt(iNt).head, a, b, D, stack \cup {<< iNt, a, b >>})

SumProds(plist, a, b, D, stack) ==
    IF plist = << >> THEN 0
    ELSE Plus(IF SeqSpan(G.prods[Head(plist)], a, b, D)
              THEN SeqTrees(G.prods[Head(plist)], a, b, D, stack) ELSE 0,
              SumProds(Tail(plist), a, b, D, stack))

\* the ways items derive a .. b
SeqTrees(items, a, b, D, stack) ==
    IF items = << >> THEN 1
    ELSE IF Head(items) < 0 THEN SumSplits(items, a, a, b, D, stack)
    ELSE SeqTrees(Tail(items), a + 1, b, D, stack)

\* the first item over a .. c and the others over c .. b, for c, c+1, .. b
SumSplits(items, a, c, b, D, stack) ==
    IF c > b THEN 0
    ELSE Plus(IF << Head(items), a, c >> \in D /\ SeqSpan(Tail(items), c, b, D)
              THEN Times(Trees(Head(items), a, c, D, stack),
                         SeqTrees(Tail(items), c, b, D, stack))
              ELSE 0,
              SumSplits(items, a, c + 1, b, D, stack))

\* the number of parse trees of the token sequence, -1 for infinitely many
TreeCount == Trees(iStartNt, 0, nTokens, Derivable, {})

\* C8: for every successful parse, num_combinations(root) equals the number
\* of distinct parse trees of the token sequence under the grammar; for
\* S -> S S | a and n tokens a it is the Catalan number C(n-1), 5 for four
\* tokens.
C8_CountsTrees ==
    (pc = "counted" /\ pResult # NULL) => (~fault /\ nComb = TreeCount)

\* what does hold: the count is the number of trees whenever that is finite
C8_CountsFiniteTrees ==
    (pc = "counted" /\ pResult # NULL /\ TreeCount >= 0) =>
        (~fault /\ nComb = TreeCount)

\* S -> S S | 1 with four tokens: 5 = C(3)
C8_Catalan ==
    (pc = "counted" /\ pGrammar = 2 /\ pResult # NULL) =>
        nComb = CASE nTokens = 1 -> 1 [] nTokens = 2 -> 1 [] nTokens = 3 -> 2
                  [] nTokens = 4 -> 5 [] nTokens = 5 -> 14 [] OTHER -> nComb

C8_ReachesCatalan ==
    pc = "counted" /\ pGrammar = 2 /\ nTokens = 4 /\ nComb = 5 /\ TreeCount = 5

(***************************************************************************)
(* C9                                                                      *)
(***************************************************************************)
\* the productions of iNt that derive a .. b
Deriving(iNt, a, b, D) ==
    {p \in ProdsOf(iNt) : SeqSpan(G.prods[p], a, b, D)}

CompletedLabel(l) == l.nt < 0 /\ l.dot = 0 /\ l.prod = NULL

\* the live nodes that carry the label of node n
Carrying(n) == {n2 \in LiveNodes : nodes[n2].label = nodes[n].label}

FamilyProds(n) == {nodes[n].fam[k].prod : k \in 1..Len(nodes[n].fam)}

\* node n of the returned forest is the only node with its label, and
\* holds an entry for each of the productions ps
PackedOnce(n, ps) ==
    Cardinality(ps) >= 2 => (Carrying(n) = {n} /\ ps \subseteq FamilyProds(n))

\* C9: when two different productions of a nonterminal B derive the same
\* span (k, j), exactly one node labelled (B, 0, none, k, j) exists, with at
\* least one family entry for each of the productions.
C9_Packed ==
    (pc = "returned" /\ pResult # NULL) =>
        \A n \in Forest(pResult) :
            (CompletedLabel(nodes[n].label) /\ nodes[n].fam # << >>) =>
                PackedOnce(n, Deriving(nodes[n].label.nt, nodes[n].label.i,
                                       nodes[n].label.j, Derivable))

\* the same for the tokens below 2^31
C9_PackedSmallTokens ==
    (\A k \in 0..(nTokens - 1) : TokenAt(k) >= 0) => C9_Packed

\* a node packed from two productions is reached
C9_ReachesPacked ==
    /\ pc = "returned" /\ pResult # NULL /\ pGrammar = 8
    /\ \E n \in Forest(pResult) :
           /\ CompletedLabel(nodes[n].label)
           /\ Cardinality(FamilyProds(n)) >= 2

(***************************************************************************)
(* C10                                                                     *)
(***************************************************************************)
\* C10: every node reachable from the returned root has i <= j <=
\* num_tokens, and the root's label is (start_nt, 0, none, 0, num_tokens).
C10_Spans ==
    (pc = "returned" /\ pResult # NULL) =>
        /\ nodes[pResult].label = Label(iStartNt, 0, NULL, 0, nTokens)
        /\ \A n \in Forest(pResult) :
               /\ nodes[n].live
               /\ nodes[n].label.i <= nodes[n].label.j
               /\ nodes[n].label.j <= nTokens

\* a forest of more than one level over the whole of a four-token input
C10_Witness ==
    /\ pc = "returned" /\ pResult # NULL /\ nTokens = 4
    /\ Cardinality(Forest(pResult)) >= 6
    /\ \E n \in Forest(pResult) : nodes[n].label.i > 0 /\ nodes[n].label.j < 4

(***************************************************************************)
(* C11                                                                     *)
(***************************************************************************)
ScenarioA ==
    pGrammar = 1 /\ iStartNt = -4 /\ pnToklist = List(ScenarioTokens)

\* the family entries of node n that belong to production p
FamiliesOf(n, p) ==
    {k \in 1..Len(nodes[n].fam) : nodes[n].fam[k].prod = p}

\* C11 as stated: for the grammar and the nine tokens of runTest_1, parse
\* returns a non-null root labelled (S0, 0, none, 0, 9) whose own family set
\* holds at least two families.
C11_RootTwoFamilies ==
    (pc = "returned" /\ ScenarioA) =>
        /\ pResult # NULL
        /\ nodes[pResult].label = Label(-4, 0, NULL, 0, 9)
        /\ Len(nodes[pResult].fam) >= 2

\* the node (S, 0, none, 0, 9) below the root holds the two combinations:
\* S(0,2) OgS(2,9) and S(0,6) OgS(6,9)
TwoCombinations(n) ==
    /\ nodes[n].label = Label(-1, 0, NULL, 0, 9)
    /\ Len(nodes[n].fam) = 2
    /\ \E k \in FamiliesOf(n, 3) :
           /\ nodes[nodes[n].fam[k].p1].label = Label(-1, 0, NULL, 0, 2)
           /\ nodes[nodes[n].fam[k].p2].label = Label(-3, 0, NULL, 2, 9)
    /\ \E k \in FamiliesOf(n, 3) :
           /\ nodes[nodes[n].fam[k].p1].label = Label(-1, 0, NULL, 0, 6)
           /\ nodes[nodes[n].fam[k].p2].label = Label(-3, 0, NULL, 6, 9)

\* C11, amended: the root is labelled (S0, 0, none, 0, 9) and holds the one
\* family (S0 -> S, none, s); its child s, labelled (S, 0, none, 0, 9),
\* holds the two families of the left- and the right-associative
\* combination.
C11_ChildTwoFamilies ==
    (pc = "returned" /\ ScenarioA) =>
        /\ pResult # NULL
        /\ nodes[pResult].label = Label(-4, 0, NULL, 0, 9)
        /\ Len(nodes[pResult].fam) = 1
        /\ nodes[pResult].fam[1].prod = 1
        /\ nodes[pResult].fam[1].p1 = NULL
        /\ TwoCombinations(nodes[pResult].fam[1].p2)

C11_Witness ==
    /\ pc = "counted" /\ ScenarioA /\ pResult # NULL /\ nComb = 2
    /\ errorToken = 0

(***************************************************************************)
(* C12                                                                     *)
(***************************************************************************)
SpanOf(n) == << nodes[n].label.i, nodes[n].label.j >>

\* family entry e of a node that spans (a, b)
SpanConsistent(e, a, b) ==
    IF e.p1 = NULL /\ e.p2 = NULL THEN a = b
    ELSE IF e.p1 = NULL THEN SpanOf(e.p2) = << a, b >>
    ELSE /\ e.p2 # NULL
         /\ SpanOf(e.p1)[1] = a
         /\ SpanOf(e.p1)[2] = SpanOf(e.p2)[1]
         /\ SpanOf(e.p2)[2] = b

\* C12: every family entry (prod, left, right) of a forest node spanning
\* (i, j) is span-consistent: with both children none i = j, with only
\* right present right spans (i, j), with both present left spans (i, m)
\* and right spans (m, j); an epsilon family never appears in a node that
\* spans one or more tokens.
C12_SpanConsistent ==
    \A n \in LiveNodes :
        \A k \in 1..Len(nodes[n].fam) :
            SpanConsistent(nodes[n].fam[k], nodes[n].label.i, nodes[n].label.j)

\* S -> A, A -> epsilon | 1 and tokens [1]: the node A(0,1) holds the
\* A -> 1 family only, while A(0,0) held the epsilon family
C12_Witness ==
    /\ pc = "returned" /\ pGrammar = 4 /\ pnToklist = List(<< 1 >>)
    /\ pResult # NULL
    /\ \E n \in Forest(pResult) :
           /\ nodes[n].label = Label(-2, 0, NULL, 0, 1)
           /\ FamilyProds(n) = {3}
           /\ nodes[n].fam[1].p1 = NULL
           /\ SpanOf(nodes[n].fam[1].p2) = << 0, 1 >>

\* a family with both children, split strictly inside the span
C12_ReachesSplit ==
    \E n \in LiveNodes : \E k \in 1..Len(nodes[n].fam) :
        /\ nodes[n].fam[k].p1 # NULL /\ nodes[n].fam[k].p2 # NULL
        /\ nodes[n].label.i < SpanOf(nodes[n].fam[k].p2)[1]
        /\ SpanOf(nodes[n].fam[k].p2)[1] < nodes[n].label.j

\* an epsilon family
C12_ReachesEpsilon ==
    \E n \in LiveNodes : \E k \in 1..Len(nodes[n].fam) :
        /\ nodes[n].fam[k].p1 = NULL /\ nodes[n].fam[k].p2 = NULL
        /\ nodes[n].label.i = nodes[n].label.j

(***************************************************************************)
(* C13                                                                     *)
(***************************************************************************)
\* the columns between their startParse and their stopParse
OpenColumns == {e \in 0..(Len(pCol) - 1) : pCol[e + 1].cache # << >>}

\* what the matching function says for the token of column e
External(e, t) ==
    pCol[e + 1].token # SENTINEL /\ MatchingFunc(pCol[e + 1].token, t)

\* C13: for one column between its start_parse and stop_parse, every call
\* matches(handle, t) returns the same value for the same terminal t, and
\* the external matching function is invoked at most once per terminal t
\* for that column.
C13_CacheIdempotent ==
    \A e \in OpenColumns : \A t \in 1..getNumTerminals :
        /\ matches(M, e, t).b = External(e, t)
        /\ pCol[e + 1].calls[t + 1] <= 1
        /\ pCol[e + 1].cache[t + 1] >= 128 => matches(M, e, t).m = M

\* a cached answer of each kind in one column, each asked for once
C13_Witness ==
    \E e \in OpenColumns : \E t1, t2 \in 1..getNumTerminals :
        /\ pCol[e + 1].cache[t1 + 1] = 129 /\ pCol[e + 1].calls[t1 + 1] = 1
        /\ pCol[e + 1].cache[t2 + 1] = 128 /\ pCol[e + 1].calls[t2 + 1] = 1
        /\ matches(M, e, t1).b /\ ~matches(M, e, t2).b

(***************************************************************************)
(* C14                                                                     *)
(***************************************************************************)
\* the sentinel column, once its cache was allocated
SentinelStarted ==
    /\ Len(pCol) = nTokens + 1
    /\ pCol[nTokens + 1].calls # << >>

\* C14 as stated: during any parse, matches is never called on the sentinel
\* column.  A call of matches leaves a cached answer, so none is cached.
C14_NeverCalled ==
    (SentinelStarted /\ pCol[nTokens + 1].cache # << >>) =>
        \A t \in 1..getNumTerminals : pCol[nTokens + 1].cache[t + 1] = 0

\* C14, amended: matches may be called on the sentinel column; it returns
\* false there and never invokes the external matching function.
C14_NeverAsksMatcher ==
    SentinelStarted =>
        /\ pCol[nTokens + 1].token = SENTINEL
        /\ \A t \in 1..getNumTerminals : pCol[nTokens + 1].calls[t + 1] = 0
        /\ pCol[nTokens + 1].cache # << >> =>
               \A t \in 1..getNumTerminals :
                   /\ pCol[nTokens + 1].cache[t + 1] \in {0, 128}
                   /\ ~matches(M, nTokens, t).b

\* the scanner has pushed a state with a terminal at its dot into the
\* sentinel column: matches answered false without asking the matcher
C14_Witness ==
    /\ SentinelStarted /\ pCol[nTokens + 1].cache # << >>
    /\ \E t \in 1..getNumTerminals :
           /\ pCol[nTokens + 1].cache[t + 1] = 128
           /\ pCol[nTokens + 1].calls[t + 1] = 0

(***************************************************************************)
(* C15                                                                     *)
(*                                                                         *)
(* The Earley sets by definition, as least fixpoints that know no order    *)
(* and no hash bins.  An item is << nt, prod, dot, start >>.               *)
(***************************************************************************)
DotItem(x) == prodAt(x[2], x[3])

Stepped(x) == << x[1], x[2], x[3] + 1, x[4] >>

\* the items that the items of X with a nonterminal at the dot predict
PredictedBy(X, c) ==
    UNION {{<< DotItem(x), q, 0, c >> : q \in ProdsOf(DotItem(x))} :
              x \in {y \in X : DotItem(y) < 0}}

\* the items that the completed items of X advance; Es[k + 1] is set k
CompletedBy(X, Es, c) ==
    UNION {{Stepped(y) : y \in {z \in (IF x[4] = c THEN X ELSE Es[x[4] + 1]) :
                                   DotItem(z) = x[1]}} :
              x \in {w \in X : DotItem(w) = 0}}

RECURSIVE CloseFrom(_, _, _, _)
CloseFrom(X, X2, Es, c) ==
    IF X2 = X THEN X
    ELSE CloseFrom(X2, X2 \cup PredictedBy(X2, c) \cup CompletedBy(X2, Es, c),
                   Es, c)

Closure(X, Es, c) == CloseFrom({}, X, Es, c)

\* the items of E that scan token e
ScannedFrom(E, e) ==
    {Stepped(x) : x \in {y \in E : /\ DotItem(y) > 0
                                    /\ MatchingFunc(TokenAt(e), DotItem(y))}}

SeedItems == {<< iStartNt, q, 0, 0 >> : q \in ProdsOf(iStartNt)}

\* the sets 0 .. c
RECURSIVE EarleySets(_)
ExtendSets(Es, c) == Append(Es, Closure(ScannedFrom(Es[c], c - 1), Es, c))

EarleySets(c) ==
    IF c = 0 THEN << Closure(SeedItems, << >>, 0) >>
    ELSE ExtendSets(EarleySets(c - 1), c)

\* the states of a list linked by next
RECURSIVE ChainOf(_)
ChainOf(q) == IF q = NULL THEN {} ELSE {q} \cup ChainOf(st[q].next)

\* the states of column e
ColumnStates(e) ==
    UNION {ChainOf(pCol[e + 1].hash[n].head) : n \in DOMAIN pCol[e + 1].hash}

Tuple(q) == << st[q].nt, st[q].prod, st[q].dot, st[q].start >>

ColumnTuples(e) == {Tuple(q) : q \in ColumnStates(e)}

\* the items a column keeps: those without a terminal at the dot
Kept(E) == {x \in E : DotItem(x) <= 0}

\* C15: after closure of each column, the collection of (nt, prod, dot,
\* start) tuples of its states is the same for every order in which the
\* agenda may enumerate states and for every number of hash bins; it
\* depends only on the grammar, the token sequence and the matcher.
C15_ColumnIsEarleySet ==
    pc = "scan" => ColumnTuples(i) = Kept(EarleySets(i)[i + 1])

\* two columns closed, with states in more than one hash bin
C15_Witness ==
    /\ pc = "scan" /\ i = 2
    /\ Cardinality(DOMAIN pCol[i + 1].hash) >= 3
    /\ Cardinality(ColumnTuples(i)) >= 3
    /\ ColumnTuples(i) = Kept(EarleySets(i)[i + 1])

(***************************************************************************)
(* C16                                                                     *)
(***************************************************************************)
\* the agenda is about to visit a completed state
VisitsCompleted == pc = "agenda" /\ pState # NULL /\ prodDot(st[pState]) = 0

\* how often node n holds the epsilon family of production p
EpsilonCount(ns, n, p) ==
    Cardinality({k \in 1..Len(ns[n].fam) :
                    ns[n].fam[k] = FamilyEntry(p, NULL, NULL)})

\* the visit of a state that started in this column pushed one entry
\* (nt, w), and a state without a node got the epsilon node with its family
\* exactly once
PushedEntry ==
    /\ Len(pH') = Len(pH) + 1
    /\ Tail(pH') = pH
    /\ Head(pH').nt = st[pState].nt
    /\ IF st[pState].w # NULL
       THEN Head(pH').v = st[pState].w
       ELSE /\ Head(pH').v \in 1..Len(nodes')
            /\ nodes'[Head(pH').v].live
            /\ nodes'[Head(pH').v].label = Label(st[pState].nt, 0, NULL, i, i)
            /\ EpsilonCount(nodes', Head(pH').v, st[pState].prod) = 1

\* C16: in column i, every completed state with start = i that the agenda
\* visits adds exactly one H entry (nt, w), w being that state's node; when
\* w was none before the visit, the epsilon family (prod, none, none) is
\* present exactly once in node (nt, 0, none, i, i) after the visit.  No H
\* entry is ever added for a completed state with start < i.
C16_HEntries ==
    [][VisitsCompleted =>
          IF st[pState].start = i THEN PushedEntry ELSE pH' = pH]_vars

\* both kinds of entry are in H: one with the epsilon node of this column,
\* one with the node of a state that had one; and a completed state that
\* started earlier is being visited
C16_Witness ==
    /\ pc = "agenda" /\ i >= 1
    /\ \E k \in 1..Len(pH) :
          /\ nodes[pH[k].v].label = Label(pH[k].nt, 0, NULL, i, i)
          /\ \E p \in ProdsOf(pH[k].nt) : EpsilonCount(nodes, pH[k].v, p) = 1
    /\ \E k \in 1..Len(pH) :
          \E e \in 1..Len(nodes[pH[k].v].fam) : nodes[pH[k].v].fam[e].p2 # NULL

C16_ReachesEarlier == VisitsCompleted /\ st[pState].start < i /\ pH # << >>

(***************************************************************************)
(* C17                                                                     *)
(*                                                                         *)
(* ac and nDiscardedStates are the objects of static storage duration that *)
(* the parser writes: one instance in the process, whichever invocation    *)
(* runs.  Everything else an invocation writes it has allocated itself.    *)
(***************************************************************************)
InParse == pc \in {"call", "loop", "agenda", "scan", "cleanup"}

\* C17: two parse invocations sharing one read-only grammar, interleaved
\* arbitrarily, write no common mutable state: no step of a parse writes
\* an object that another invocation can reach.
C17_NoSharedWrites ==
    [][InParse => UNCHANGED << ac, nDiscardedStates >>]_vars

\* a parse has counted a discarded state and the allocations of its states
C17_ReachesSharedWrite ==
    /\ pc = "agenda"
    /\ nDiscardedStates > 0
    /\ ac.State # NoCount

(***************************************************************************)
(* C18                                                                     *)
(***************************************************************************)
\* C18: parse terminates for every grammar and every finite token
\* sequence, including left-recursive grammars, cyclic grammars (A -> A)
\* and grammars with nullable recursive productions: every call of parse
\* returns.
C18_Terminates == <>(~InParse)

\* parse has returned for the cyclic, the left-recursive and the
\* nullable-recursive grammar, each with tokens to read
C18_Witness == pc = "returned" /\ pGrammar = 3 /\ nTokens = MaxTokens

C18_ReachesLeftRecursive == pc = "returned" /\ pGrammar = 2 /\ nTokens = MaxTokens

C18_ReachesNullableRecursive ==
    pc = "returned" /\ pGrammar = 6 /\ nTokens = MaxTokens /\ pResult # NULL

(***************************************************************************)
(* C19                                                                     *)
(***************************************************************************)
\* the file is there and its signature does not start with "Reynir "
SignatureMismatch ==
    grammarFile.exists /\ ~StartsWithReynir(grammarFile.sig)

\* C19: Grammar load returns false and leaves the grammar empty (zero
\* nonterminals, zero terminals, root 0) whenever the signature does not
\* start with "Reynir ", a production length exceeds 256, or any read
\* delivers fewer bytes than requested.
C19_LoadFails ==
    (rd.ret # "none" /\ (SignatureMismatch \/ rd.tooLong \/ rd.short))
        => (rd.ret = "false" /\ rd.g = EmptyGrammar)

\* what does hold: a load that returns false leaves the grammar empty, and
\* no load returns true on a signature mismatch or a production too long
C19_FailureLeavesEmpty ==
    /\ rd.ret = "false" => rd.g = EmptyGrammar
    /\ rd.ret = "true" => ~SignatureMismatch /\ ~rd.tooLong

\* a load that has returned true although a read fell short
C19_ReachesShortLoad ==
    rd.ret = "true" /\ rd.short /\ rd.g # EmptyGrammar

\* loads that failed for each of the three reasons, the grammar left empty
C19_ReachesMismatch ==
    rd.ret = "false" /\ SignatureMismatch /\ Len(grammarFile.sig) = 16

C19_ReachesTooLong == rd.ret = "false" /\ rd.tooLong /\ rd.g = EmptyGrammar

C19_ReachesLoaded ==
    rd.ret = "true" /\ ~rd.short /\ rd.g.nNonterminals = 1
        /\ Len(rd.g.nts[1].prods) = 1

(***************************************************************************)
(* C20                                                                     *)
(***************************************************************************)
\* the columns that exist; pCol[e + 1] is column e
Columns == 0..(Len(pCol) - 1)

\* no two states of cs have the same four fields
NoTwoAgree(cs) == \A p \in cs, q \in cs : Tuple(p) = Tuple(q) => p = q

\* C20: within any column, no two distinct states agree on (nt, prod, dot,
\* start) -- so that deduplicating with or without w yields the same
\* column: a state that State::operator== lets in because only its w
\* differs would be a second state with the four fields of another.
C20_NoTwoStatesAgree ==
    \A e \in Columns : NoTwoAgree(ColumnStates(e))

\* a column that holds a state whose node packs two derivations: the state
\* was pushed twice, with the same four fields and the same node
C20_Witness ==
    /\ pc = "scan"
    /\ \E q \in ColumnStates(i) :
          /\ st[q].w # NULL
          /\ Len(nodes[st[q].w].fam) >= 2
    /\ nDiscardedStates > 0

(***************************************************************************)
(* C21                                                                     *)
(***************************************************************************)
\* the states whose w is node n
StateHolders(n) == {p \in DOMAIN st : st[p].live /\ st[p].w = n}

\* the child slots of the family entries of a node, and of every live node
\* from h on, as one sequence of the nodes they refer to
RECURSIVE FamilyRefs(_, _)
FamilyRefs(fam, k) ==
    IF k > Len(fam) THEN << >>
    ELSE << fam[k].p1, fam[k].p2 >> \o FamilyRefs(fam, k + 1)

RECURSIVE ChildRefs(_)
ChildRefs(h) ==
    IF h > Len(nodes) THEN << >>
    ELSE (IF nodes[h].live THEN FamilyRefs(nodes[h].fam, 1) ELSE << >>)
         \o ChildRefs(h + 1)

\* the child slots that refer to node n
ChildSlots(refs, n) == {k \in 1..Len(refs) : refs[k] = n}

DictEntries(n) == {k \in 1..Len(ndV) : ndV[k] = n}

\* the driver's own references: the token node of the running scan, and
\* the result from its extraction to its release by the caller
DriverRefs(n) ==
    (IF pV = n THEN 1 ELSE 0)
    + (IF pResult = n /\ pc \in {"cleanup", "returned", "counted"} THEN 1 ELSE 0)

Holders(refs, n) ==
    Cardinality(StateHolders(n)) + Cardinality(ChildSlots(refs, n))
    + Cardinality(DictEntries(n)) + DriverRefs(n)

CountsAreHolders(refs) ==
    \A n \in 1..Len(nodes) :
        IF nodes[n].live THEN nodes[n].rc > 0 /\ nodes[n].rc = Holders(refs, n)
        ELSE Holders(refs, n) = 0

\* C21: at every step of a parse, each live forest node's reference count
\* equals the number of holders of it (states by w, family-entry child
\* slots, the NodeDict, the driver's token node and result); a node is
\* destroyed exactly when that number reaches zero, so nothing refers to a
\* destroyed node.
C21_CountIsHolders == CountsAreHolders(ChildRefs(1))

\* a node held in all four ways at once, and a node that was destroyed
C21_Witness ==
    /\ \E n \in 1..Len(nodes) :
          /\ nodes[n].live
          /\ StateHolders(n) # {} /\ DictEntries(n) # {}
          /\ ChildSlots(ChildRefs(1), n) # {}
          /\ nodes[n].rc >= 4
    /\ \E n \in 1..Len(nodes) : ~nodes[n].live

(***************************************************************************)
(* C22                                                                     *)
(***************************************************************************)
\* the items of the scan agenda Q
AgendaTuples(q) == {Tuple(p) : p \in ChainOf(q)}

\* item x is where push puts it: in column i, or in Q when a terminal that
\* matches token i is at its dot (an item whose terminal does not match is
\* nowhere)
Placed(x) ==
    IF DotItem(x) <= 0 THEN x \in ColumnTuples(i)
    ELSE External(i, DotItem(x)) => x \in AgendaTuples(pQ)

ClosedUnderPrediction ==
    \A x \in ColumnTuples(i) :
        DotItem(x) < 0 =>
            \A q \in ProdsOf(DotItem(x)) : Placed(<< DotItem(x), q, 0, i >>)

ClosedUnderCompletion ==
    \A x \in ColumnTuples(i) :
        DotItem(x) = 0 =>
            \A t \in ColumnTuples(x[4]) :
                DotItem(t) = x[1] => Placed(Stepped(t))

\* the agenda loop of column i ends
AgendaEnds == pc = "agenda" /\ pState = NULL /\ pc' = "scan"

\* C22: when the agenda loop of column i ends, column i together with scan
\* agenda Q is closed under prediction and completion (the completion of a
\* nullable nonterminal in its own column included, whichever of the two
\* states came first).
C22_Closed ==
    [][AgendaEnds => (ClosedUnderPrediction /\ ClosedUnderCompletion)']_vars

\* a closed column past the first, with a nullable nonterminal completed in
\* it, a state advanced over it, and a state waiting in Q
C22_Witness ==
    /\ pc = "scan" /\ i >= 1 /\ pQ # NULL
    /\ ClosedUnderPrediction /\ ClosedUnderCompletion
    /\ \E x \in ColumnTuples(i) :
          /\ DotItem(x) = 0 /\ x[4] = i
          /\ \E t \in ColumnTuples(i) : DotItem(t) = x[1] /\ Stepped(t) \in ColumnTuples(i)

(***************************************************************************)
(* C23                                                                     *)
(***************************************************************************)
\* what nextState has returned for column e, in order
Visited(e) == pCol[e + 1].visited

ReturnedBy(e) == {Visited(e)[k] : k \in 1..Len(Visited(e))}

\* no element occurs twice in the sequence
Once(v) == Cardinality({v[a] : a \in 1..Len(v)}) = Len(v)

\* nextState has returned none for column e: for the columns before i, and
\* for column i when its agenda loop has ended
Exhausted(e) ==
    \/ e < i
    \/ e = i /\ (pc = "scan" \/ (pc = "agenda" /\ pState = NULL))

\* C23: during the closure of a column, nextState returns every state that
\* is ever added to that column exactly once, states inserted while the
\* enumeration is in progress included, and returns none only when every
\* state of the column has been returned.
C23_EachStateOnce ==
    pc \in {"loop", "agenda", "scan"} =>
        \A e \in Columns :
            /\ Once(Visited(e))
            /\ IF Exhausted(e) THEN ReturnedBy(e) = ColumnStates(e)
               ELSE ReturnedBy(e) \subseteq ColumnStates(e)

\* an exhausted column whose states were returned in another order than
\* that of their arena slots (the enumeration goes by bins), and a bin with
\* two states
C23_Witness ==
    /\ pc = "scan"
    /\ Len(Visited(i)) >= 3
    /\ \E a \in 1..Len(Visited(i)), b \in 1..Len(Visited(i)) :
          a < b /\ Visited(i)[a] > Visited(i)[b]
    /\ ReturnedBy(i) = ColumnStates(i)

C23_ReachesSharedBin ==
    \E e \in Columns : \E n \in DOMAIN pCol[e + 1].hash :
        pCol[e + 1].hash[n].head # pCol[e + 1].hash[n].tail

(***************************************************************************)
(* Where push puts a state                                                 *)
(***************************************************************************)
LiveStates == {p \in DOMAIN st : st[p].live}

AllColumnStates == UNION {ColumnStates(e) : e \in Columns}

\* the column the agenda pQ0 is handed to: the next one while the scanner
\* fills it, column i once the loop counter has moved on
Q0Column == IF pc = "scan" THEN i + 1 ELSE i

TerminalFor(q, e) == prodDot(st[q]) > 0 /\ External(e, prodDot(st[q]))

\* with cs the states of the columns, q and q0 those of the agendas
PlacedByPush(cs, q, q0) ==
    /\ \A p \in cs : prodDot(st[p]) <= 0
    /\ \A p \in q : TerminalFor(p, i)
    /\ \A p \in q0 : TerminalFor(p, Q0Column)
    /\ cs \cup q \cup q0 = LiveStates

\* C24: every state linked into a column has a nonterminal or the end
\* sentinel at its dot (item <= 0); every state in a scan agenda handed to
\* column i has a positive terminal at its dot that matches the token of
\* column i; and a state for which push returned false (it is discarded or
\* destroyed at once, so it is no longer live) is linked into no column and
\* no agenda: the linked states are exactly the live ones.
C24_PushPlacesStates ==
    pc \in {"loop", "agenda", "scan"} =>
        PlacedByPush(AllColumnStates, ChainOf(pQ), ChainOf(pQ0))

\* the agenda loop of a column that holds states has put a state into Q
\* and push has refused another, whose terminal does not match the token
C24_Witness ==
    /\ pc = "agenda"
    /\ pState # NULL
    /\ pQ # NULL
    /\ nDiscardedStates > 0
    /\ \E t \in DOMAIN pCol[i + 1].cache : pCol[i + 1].cache[t] = 128

\* the scanner has put a state into the agenda handed to the next column
C24_ReachesCarried == pc = "scan" /\ pQ0 # NULL /\ nDiscardedStates > 0

\* the scanner has put a state into the next column
C24_ReachesScanned == pc = "scan" /\ ColumnStates(i + 1) # {}

(***************************************************************************)
(* The state arena                                                         *)
(***************************************************************************)
\* C25: every call of discardState during a parse is given the slot that
\* the head chunk handed out last and has not taken back (no allocation lies
\* between), and the state in it is linked into no column and no scan
\* agenda; no slot that holds a live state is handed out again, and every
\* live state lies below the place the head chunk hands out next.
C25_DiscardsLastSlot ==
    /\ ~misuse.misplaced
    /\ ~misuse.linked
    /\ ~misuse.reused
    /\ \A p \in LiveStates :
          p <= (Len(chunks) - 1) * CHUNK_STATES + chunks[Len(chunks)]

\* a slot was taken back and handed out again, and live states lie below it
C25_Witness ==
    /\ pc \in {"agenda", "scan"}
    /\ nDiscardedStates > 1
    /\ \E p \in LiveStates : p = TopSlot(M)
    /\ Cardinality(LiveStates) > 2

(***************************************************************************)
(* The scan agendas at the end of the input                                *)
(***************************************************************************)
\* the main loop has been left: by the break of line 1093, or by i reaching
\* nTokens + 1
LoopLeft == pc = "cleanup" \/ (pc = "loop" /\ i = nTokens + 1)

\* C26: when the main loop is at the sentinel column (i = nTokens) the scan
\* agenda Q is empty, so the scanner, which runs only while Q holds a state,
\* never addresses a column with an index above nTokens; and Q and Q0 are
\* both empty whenever the main loop has been left, by the break or by the
\* end of the input.
C26_AgendasEmptyAtEnd ==
    /\ (pc \in {"agenda", "scan"} /\ i = nTokens) => pQ = NULL
    /\ (pc = "scan" /\ pQ # NULL) => i + 1 <= nTokens
    /\ LoopLeft => (pQ = NULL /\ pQ0 = NULL)

\* the agenda loop of the sentinel column, after tokens were scanned, has
\* been refused a state with a terminal at its dot
C26_Witness ==
    /\ pc = "agenda"
    /\ i = nTokens
    /\ nTokens > 0
    /\ \E t \in DOMAIN pCol[i + 1].cache : pCol[i + 1].cache[t] = 128

\* the loop left by the break after at least one token, and by the end of
\* the input
C26_ReachesBreak == pc = "cleanup" /\ errorToken > 0 /\ errorToken <= nTokens

C26_ReachesEnd == pc = "loop" /\ i = nTokens + 1 /\ nTokens > 1

(***************************************************************************)
(* The matching cache                                                      *)
(***************************************************************************)
Started(e) == pCol[e + 1].cache # << >>

\* C27: matches is only ever called on a column whose matching cache is
\* allocated, that is between the column's startParse and its stopParse:
\* no call has found the cache missing, the column of the agenda loop (into
\* which the predictor and the completer push) is started throughout the
\* loop, and the next column is started whenever the scanner has a state to
\* push into it.
C27_MatchesOnStartedColumn ==
    /\ ~misuse.unstarted
    /\ pc = "agenda" => Started(i)
    /\ (pc = "scan" /\ pQ # NULL) => Started(i + 1)

\* the scanner has asked the next column for a match, and the agenda loop
\* of a column after the first has asked its column
C27_Witness ==
    /\ pc = "scan"
    /\ i < nTokens
    /\ \E t \in DOMAIN pCol[i + 2].cache : pCol[i + 2].cache[t] >= 128

C27_ReachesLaterAgenda ==
    /\ pc = "agenda"
    /\ i > 0
    /\ \E t \in DOMAIN pCol[i + 1].cache : pCol[i + 1].calls[t] > 0

\* C28 as stated: in every iteration i, stopParse on column i comes after
\* the scanner has routed every state of Q into column i+1, as the last step
\* of the iteration; so while the scanner still has a state to route, the
\* matching cache of column i is allocated.
C28_StoppedAfterScanner == (pc = "scan" /\ pQ # NULL) => Started(i)

\* C28, amended: in every iteration i, stopParse on column i comes after
\* the agenda loop of column i and before the scanner phase: the cache of
\* column i is allocated throughout the agenda loop and released throughout
\* the scanner phase, and no column before i has a cache.
C28_StoppedBeforeScanner ==
    /\ pc = "agenda" => Started(i)
    /\ pc = "scan" => ~Started(i)
    /\ pc \in {"loop", "agenda", "scan"} =>
          \A e \in Columns : e < i => ~Started(e)

\* the scanner has a state to route, the next column is started and column
\* i is stopped
C28_Witness ==
    /\ pc = "scan"
    /\ pQ # NULL
    /\ Started(i + 1)
    /\ ~Started(i)

(***************************************************************************)
(* Expansion of nonterminals                                               *)
(***************************************************************************)
Expanded(e, k) == pCol[e + 1].expanded[k]

\* C29: in any one column, the productions of a given nonterminal are
\* pushed as fresh dot-0 states starting at that column at most once,
\* counting the seeding of the start nonterminal into column 0 as an
\* expansion.
C29_ExpandedOnce ==
    \A e \in Columns : \A k \in 1..getNumNonterminals : Expanded(e, k) <= 1

\* the predictor alone expands a nonterminal at most once into a column: a
\* second expansion is that of the start nonterminal in column 0, after the
\* seeding
C29_PredictedOnce ==
    \A e \in Columns : \A k \in 1..getNumNonterminals :
        /\ Expanded(e, k) <= 2
        /\ Expanded(e, k) = 2 => (e = 0 /\ k = NtIndex(iStartNt) + 1)

\* a nonterminal met a second time at a dot in a column after the first
C29_ReachesSeenAgain ==
    /\ pc = "agenda"
    /\ i > 0
    /\ pState # NULL
    /\ prodDot(st[pState]) < 0
    /\ pbSeen[NtIndex(prodDot(st[pState])) + 1] = 1

(***************************************************************************)
(* The lists of states by nonterminal at the dot                           *)
(***************************************************************************)
\* the list of column states linked by m_pNtNext from q
RECURSIVE NtChain(_)
NtChain(q) == IF q = NULL THEN << >> ELSE << q >> \o NtChain(st[q].ntNext)

NtChainOf(e, k) == NtChain(pCol[e + 1].nt[k])

Members(v) == {v[a] : a \in 1..Len(v)}

\* with cs the states of column e: the list of every nonterminal holds each
\* state of cs that has the nonterminal at its dot once, and nothing else
ListsHold(e, cs) ==
    \A k \in 1..getNumNonterminals :
        /\ Once(NtChainOf(e, k))
        /\ Members(NtChainOf(e, k)) = {q \in cs : prodDot(st[q]) = -k}

\* C30: in every column, each state with the nonterminal of index idx at
\* its dot appears exactly once in the list m_pNtStates[idx] of that column
\* and no other state appears in it; a state with a terminal or the end
\* sentinel at its dot is in no list, and its m_pNtNext is NULL.
C30_NtChains ==
    pc \in {"loop", "agenda", "scan"} =>
        /\ \A e \in Columns : ListsHold(e, ColumnStates(e))
        /\ \A q \in LiveStates : prodDot(st[q]) >= 0 => st[q].ntNext = NULL

\* a column with two states in one list, a completed state, and a state in
\* a scan agenda
C30_Witness ==
    /\ pc = "agenda"
    /\ pQ # NULL
    /\ \E k \in 1..getNumNonterminals : Len(NtChainOf(i, k)) > 1
    /\ \E q \in ColumnStates(i) : prodDot(st[q]) = 0

\* a scanned state, moved on in place by increment, is in a list of the
\* next column
C30_ReachesScannedInList ==
    /\ pc = "scan"
    /\ i < nTokens
    /\ \E k \in 1..getNumNonterminals : \E a \in 1..Len(NtChainOf(i + 1, k)) :
          st[NtChainOf(i + 1, k)[a]].start < i + 1

(***************************************************************************)
(* The labels of the forest nodes                                          *)
(***************************************************************************)
\* the label of a completed nonterminal, and that of a production with the
\* dot inside it, two or more items from its start
NonterminalLabel(l) == l.dot = 0 /\ l.prod = NULL

InteriorLabel(l) ==
    /\ l.prod # NULL
    /\ 2 <= l.dot
    /\ l.dot < getLength(l.prod)

\* C31: every forest node made by makeNode or by the completer (the nodes
\* labelled by a nonterminal; the others are the scanner's token nodes) has
\* a label that is (nt, 0, none, i, j) for a completed nonterminal or
\* (nt, dot, prod, i, j) with 2 <= dot < length(prod); no node with dot = 1
\* is ever made, makeNode returning v as it is, with no node made and no
\* family added, when the advanced dot is 1 and the production has two
\* items or more: a state with its dot at 1 in such a production carries a
\* token node or the node of a completed nonterminal.
C31_LabelShapes ==
    /\ \A n \in 1..Len(nodes) :
          nodes[n].label.nt < 0 =>
              NonterminalLabel(nodes[n].label) \/ InteriorLabel(nodes[n].label)
    /\ \A p \in LiveStates :
          (st[p].dot = 1 /\ getLength(st[p].prod) >= 2) =>
              (st[p].w # NULL /\ NonterminalLabel(nodes[st[p].w].label))

\* a node for a dot inside a production, the node of a completed
\* nonterminal, and a state at dot 1 that carries the node it was handed
C31_Witness ==
    /\ \E n \in 1..Len(nodes) :
          nodes[n].label.nt < 0 /\ InteriorLabel(nodes[n].label)
    /\ \E n \in 1..Len(nodes) :
          nodes[n].label.nt < 0 /\ NonterminalLabel(nodes[n].label)
    /\ \E p \in LiveStates :
          /\ st[p].dot = 1 /\ getLength(st[p].prod) >= 2
          /\ nodes[st[p].w].label.nt < 0

(***************************************************************************)
(* The node of a state                                                     *)
(***************************************************************************)
\* the states of the last column from which getResult returns m_pw
ResultStates ==
    {q \in ColumnStates(nTokens) : /\ st[q].nt = iStartNt
                                   /\ prodDot(st[q]) = 0
                                   /\ st[q].start = 0}

\* the main loop has run to its end, before and after the result is taken
AtResult == i > nTokens /\ pc \in {"loop", "cleanup"}

\* C32: for every state held in a column or a scan agenda (the states in
\* use), the node pointer w is NULL exactly when the dot is 0; so a
\* completed state without a node is a state of an epsilon production, and
\* the node taken as the result of the parse is never NULL: every state of
\* the last column that getResult accepts has a node, and once the result
\* loop has run with such a state present, pResult is not NULL.
C32_NodeUnlessDotZero ==
    /\ pc \in {"loop", "agenda", "scan", "cleanup"} =>
          \A p \in LiveStates :
              /\ (st[p].w = NULL) <=> (st[p].dot = 0)
              /\ (prodDot(st[p]) = 0 /\ st[p].w = NULL) =>
                     getLength(st[p].prod) = 0
    /\ AtResult => \A q \in ResultStates : st[q].w # NULL
    /\ (AtResult /\ pc = "cleanup" /\ ResultStates # {}) => pResult # NULL

\* the result was taken from a state of the last column, in a parse that
\* had a completed epsilon state without a node in a column
C32_Witness ==
    /\ AtResult
    /\ pc = "cleanup"
    /\ pResult # NULL
    /\ \E q \in ResultStates : st[q].w = pResult
    /\ \E p \in LiveStates : prodDot(st[p]) = 0 /\ st[p].w = NULL

(***************************************************************************)
(* Equal states in a scan agenda                                           *)
(***************************************************************************)
\* no two states of the list are equal by State::operator==
NoTwoEqual(qs) == \A p \in qs, q \in qs : StateEq(st[p], st[q]) => p = q

\* C33: no scan agenda (Q or Q0) ever holds two states that are equal in
\* (nt, prod, dot, start, w).
C33_AgendaStatesDiffer ==
    pc \in {"loop", "agenda", "scan"} =>
        NoTwoEqual(ChainOf(pQ)) /\ NoTwoEqual(ChainOf(pQ0))

\* the same for the states whose dot has moved, which leaves aside the fresh
\* states that a second expansion of the start nonterminal puts into Q
C33_AdvancedStatesDiffer ==
    pc \in {"loop", "agenda", "scan"} =>
        /\ NoTwoEqual({q \in ChainOf(pQ) : st[q].dot > 0})
        /\ NoTwoEqual({q \in ChainOf(pQ0) : st[q].dot > 0})

(***************************************************************************)
(* The H set                                                               *)
(***************************************************************************)
\* with cs the states of column i and refs the child slots of the forest:
\* the node of every H entry is alive, is held by the NodeDict or by a state
\* of the column, and has a reference count that the H entry is no part of
HEntriesHeld(cs, refs) ==
    \A k \in 1..Len(pH) :
        /\ nodes[pH[k].v].live
        /\ \/ DictEntries(pH[k].v) # {}
           \/ \E q \in cs : st[q].w = pH[k].v
        /\ nodes[pH[k].v].rc = Holders(refs, pH[k].v)

\* C34: an H entry holds its node without a reference count of its own,
\* and as long as the entry exists the node is alive, held by the NodeDict
\* or by a state of the column; the H set is destroyed at the end of the
\* column's agenda loop, before the NodeDict is reset, so it has entries
\* only during an agenda loop.
C34_HNodesAlive ==
    /\ ~misuse.hset
    /\ pc # "agenda" => pH = << >>
    /\ pH # << >> => HEntriesHeld(ColumnStates(i), ChildRefs(1))

\* an H entry whose node a state of the column holds beside the NodeDict,
\* with more H entries in the set
C34_Witness ==
    /\ pc = "agenda"
    /\ Len(pH) >= 2
    /\ \E k \in 1..Len(pH) :
          /\ DictEntries(pH[k].v) # {}
          /\ \E q \in ColumnStates(i) : st[q].w = pH[k].v
          /\ nodes[pH[k].v].rc >= 2

\* an H entry whose node only the NodeDict holds
C34_ReachesDictOnly ==
    /\ pc = "agenda"
    /\ \E k \in 1..Len(pH) :
          /\ nodes[pH[k].v].rc = 1
          /\ DictEntries(pH[k].v) # {}

(***************************************************************************)
(* The root of the forest                                                  *)
(***************************************************************************)
\* C35: when the main loop has run to its end, all states of the last
\* column that getResult accepts (nt = start nonterminal, dot at the end of
\* the production, start = 0) carry one and the same forest node, and the
\* node taken as the result is that node: the root returned does not depend
\* on which of these states the enumeration meets first.
C35_OneRoot ==
    AtResult =>
        /\ \A p \in ResultStates, q \in ResultStates : st[p].w = st[q].w
        /\ pc = "cleanup" => \A q \in ResultStates : st[q].w = pResult

\* the result was taken with two states of different productions accepted
\* by getResult in the last column
C35_Witness ==
    /\ AtResult
    /\ pc = "cleanup"
    /\ pResult # NULL
    /\ \E p \in ResultStates, q \in ResultStates : st[p].prod # st[q].prod

====
